---------------------------- MODULE Spec2Model ----------------------------
(***************************************************************************)
(* Model of the PDF text pipeline of datasetbuilder-teplo:                 *)
(*   - PDFProcessor.extractText: the per-page reconstruction loop that     *)
(*     turns positioned text fragments into logical lines                  *)
(*     (src/js/pdf-processor.js, lines 26-103);                            *)
(*   - PDFProcessor.cleanText: the normalisation pipeline                  *)
(*     (src/js/pdf-processor.js, lines 113-135).                           *)
(*                                                                         *)
(* Text is a sequence of one-character strings.  Coordinates are integers  *)
(* and every comparison with a threshold is done in exact arithmetic, on   *)
(* both sides multiplied by 100 * count (count = number of fragments with  *)
(* a height), so that avgFontSize * 0.15, avgFontSize * 0.3 and            *)
(* str.length * avgFontSize * 0.6 need no division.  The coordinates of    *)
(* the model are chosen so that no comparison is a tie.                    *)
(***************************************************************************)
EXTENDS Integers, Sequences, FiniteSets, TLC

VARIABLES
    items,             \* textContent.items of the page being reconstructed
    i,                 \* loop index of "for (let i = 0; ...)", 1-based here
    totalHeight,       \* sum of the truthy item.height values
    count,             \* number of items with a truthy height
    pageLines,         \* lines already flushed
    currentLineParts,  \* parts of the line being built
    lastItem,          \* <<>> for null, <<item>> otherwise
    pc,                \* position in extractText: "avg", "loop", "done"
    text,              \* argument of cleanText
    cleaned,           \* cleanText(text)
    cleanedTwice,      \* cleanText(cleanText(text))
    cpc,               \* cleanText runs done: "in" (none), "once", "twice"
    pdf,               \* the document being extracted: its pages' textContent.items
    pageNum,           \* loop variable of "for (let pageNum = 1; ...)"
    fullText,          \* the pages pushed so far, each with its number and lines
    file,              \* argument of processFile
    result,            \* <<>> until processFile returns, then <<its result>>
    files,             \* argument of handleProcessPDFs
    fileIdx,           \* position of "for (const file of files)", 1-based here
    datasetEntries,    \* AppState.datasetEntries
    processedFiles,    \* AppState.processedFiles
    isProcessing,      \* AppState.isProcessing
    processedCount,    \* local of handleProcessPDFs
    errorCount,        \* local of handleProcessPDFs
    hpc,               \* position in handleProcessPDFs: "idle", "loop", "await", "done"
    existing,          \* first argument of mergeDatasets, argument of toJSONL
    newEntries,        \* second argument of mergeDatasets
    merged,            \* <<>> until mergeDatasets returns, then <<its result>>
    jsonl,             \* <<>> until toJSONL returns, then <<its result>>
    storage,           \* the item the application keeps in localStorage: <<>> or <<snapshot>>
    currentPreviewIndex, \* AppState.currentPreviewIndex, 1-based here, or NoIndex
    checkboxAppealed,  \* DOM.checkboxAppealed.checked
    checkboxCanceled,  \* DOM.checkboxCanceled.checked
    lpc,               \* position in handleLoadJSONL: "idle", "await"
    loadedEntries,     \* "entries" of the last handleLoadJSONL that parsed its file
    selections,        \* number of file selections made in the PDF input
    rejected,          \* number of handleProcessPDFs invocations that found the lock taken
    parsed,            \* <<>> until fromJSONL returns, then <<its result>>
    keysToDelete,      \* AppState.keysToDelete of the editor, in insertion order
    keysToAdd,         \* AppState.keysToAdd of the editor
    applyStatus        \* what DOM.applyStatus of the editor shows: "", "added", "applied", "error"

extractVars == <<items, i, totalHeight, count, pageLines, currentLineParts, lastItem, pc>>
cleanVars == <<text, cleaned, cleanedTwice, cpc>>
docVars == <<pdf, pageNum, fullText>>
procVars == <<file, result>>
appVars == <<files, fileIdx, datasetEntries, processedFiles, isProcessing,
            processedCount, errorCount, hpc>>
jsonlVars == <<existing, newEntries, merged, jsonl>>
uiVars == <<currentPreviewIndex, checkboxAppealed, checkboxCanceled>>
loadVars == <<lpc, loadedEntries>>
editorVars == <<keysToDelete, keysToAdd, applyStatus>>
sessionVars == <<storage, uiVars, loadVars, selections, rejected, parsed, editorVars>>
vars == <<items, i, totalHeight, count, pageLines, currentLineParts, lastItem, pc,
          text, cleaned, cleanedTwice, cpc, pdf, pageNum, fullText, file, result,
          files, fileIdx, datasetEntries, processedFiles, isProcessing,
          processedCount, errorCount, hpc,
          existing, newEntries, merged, jsonl,
          storage, currentPreviewIndex, checkboxAppealed, checkboxCanceled,
          lpc, loadedEntries, selections, rejected, parsed, keysToDelete, keysToAdd,
          applyStatus>>

-----------------------------------------------------------------------------
(* Bounds *)

MaxItems == 3      \* fragments on a page
MaxTextLen == 4    \* characters of a cleanText argument over Alphabet
MaxLinesLen == 6   \* characters of a cleanText argument over LineAlphabet
MaxPages == 2      \* pages of a document
MaxDocItems == 3   \* fragments of a document, all pages together
MaxNameParts == 3  \* parts of a file name between underscores
MaxFiles == 2      \* files selected for one batch
MaxEntries == 2    \* entries of a dataset handed to toJSONL or mergeDatasets
MaxSelections == 2 \* files or lists of files the user selects, PDF and JSONL together
MaxRejected == 1   \* invocations of handleProcessPDFs made while a batch runs
MaxAddedKeys == 1  \* keys queued for addition in the editor
MaxSelectedKeys == 2  \* keys selected for deletion in the editor
MaxLoads == 1      \* datasets loaded into the editor

\* the value null of AppState.currentPreviewIndex; the indices of the model
\* start at 1
NoIndex == 0

-----------------------------------------------------------------------------
(* Characters and strings *)

\* what String.prototype.trim and the regex class \s treat as whitespace
\* (of the characters the model uses)
WhiteSpace == {" ", "\t", "\n", "\r"}

RECURSIVE Flatten(_)
\* Array.prototype.join(''): the concatenation of a sequence of strings
Flatten(ss) == IF ss = <<>> THEN <<>> ELSE Head(ss) \o Flatten(Tail(ss))

\* "!str || str.trim() === ''"
IsBlank(str) == \A k \in 1..Len(str) : str[k] \in WhiteSpace

-----------------------------------------------------------------------------
(* Fragments of a page *)

FragTexts == { <<"a">>, <<"b", " ">>, <<" ">> }
FragXs == {0, 14}
FragYs == {0, 5}
\* measured fragments carry width and height, degenerate ones carry neither
FragSizes == { <<8, 20>>, <<0, 0>> }

Fragments ==
    { [str |-> s, x |-> fx, y |-> fy, width |-> sz[1], height |-> sz[2]] :
        s \in FragTexts, fx \in FragXs, fy \in FragYs, sz \in FragSizes }

Pages == UNION { [1..n -> Fragments] : n \in 0..MaxItems }

-----------------------------------------------------------------------------
(* Geometry: lines 33-46 and 61-76 *)

RECURSIVE SumHeights(_)
SumHeights(its) ==
    IF its = <<>> THEN 0 ELSE Head(its).height + SumHeights(Tail(its))

\* CountHeights with "count++" outside the "if (item.height)"
CountAllItems(its) == Len(its)

RECURSIVE CountHeights(_)
CountHeights(its) ==
    IF its = <<>> THEN 0
    ELSE (IF Head(its).height # 0 THEN 1 ELSE 0) + CountHeights(Tail(its))

\* avgFontSize = AvgNum / AvgDen: "count > 0 ? totalHeight / count : 12"
DefaultFontSize == 12
AvgNum(th, cnt) == IF cnt > 0 THEN th ELSE DefaultFontSize
AvgDen(th, cnt) == IF cnt > 0 THEN cnt ELSE 1

\* WordGapThreshold with the factor of the line threshold
WordGapThresholdLineFactor(th, cnt) == AvgNum(th, cnt) * 30

\* WORD_GAP_THRESHOLD = avgFontSize * 0.15, times 100 * AvgDen
WordGapThreshold(th, cnt) == AvgNum(th, cnt) * 15
\* LINE_HEIGHT_THRESHOLD = avgFontSize * 0.3, times 100 * AvgDen
LineHeightThreshold(th, cnt) == AvgNum(th, cnt) * 30

\* "item.width || (item.str.length * avgFontSize * 0.6)", times 100 * AvgDen
WidthOf(item, th, cnt) ==
    IF item.width # 0 THEN item.width * 100 * AvgDen(th, cnt)
    ELSE Len(item.str) * AvgNum(th, cnt) * 60

Abs(n) == IF n < 0 THEN -n ELSE n

\* deltaY = Math.abs(y - lastY), times 100 * AvgDen
DeltaY(item, last, th, cnt) == Abs(item.y - last.y) * 100 * AvgDen(th, cnt)

\* gap = x - lastXEnd, times 100 * AvgDen
Gap(item, last, th, cnt) ==
    (item.x - last.x) * 100 * AvgDen(th, cnt) - WidthOf(last, th, cnt)

\* IsNewLine without the "x < lastX" test
IsNewLineOnlyY(item, last, th, cnt) ==
    DeltaY(item, last, th, cnt) > LineHeightThreshold(th, cnt)

\* "deltaY > LINE_HEIGHT_THRESHOLD || x < lastX"
IsNewLine(item, last, th, cnt) ==
    \/ DeltaY(item, last, th, cnt) > LineHeightThreshold(th, cnt)
    \/ item.x < last.x

\* IsWordGap with any positive gap taken for a word gap
IsWordGapAnyGap(item, last, th, cnt) ==
    Gap(item, last, th, cnt) > 0

\* "gap > WORD_GAP_THRESHOLD"
IsWordGap(item, last, th, cnt) ==
    Gap(item, last, th, cnt) > WordGapThreshold(th, cnt)

-----------------------------------------------------------------------------
(* One iteration of the fragment loop, lines 52-96, as a function of the   *)
(* loop state st = [pageLines, currentLineParts, lastItem]                 *)

\* BlankStep that leaves lastItem alone
BlankStepSkipped(st, item) == st

\* lines 56-59: a blank fragment only becomes lastItem
BlankStep(st, item) ==
    [st EXCEPT !.lastItem = <<item>>]

\* lines 91-93: no lastItem yet
FirstStep(st, item) ==
    [st EXCEPT !.currentLineParts = Append(@, item.str), !.lastItem = <<item>>]

\* NewLineStep that forgets to flush the current line
NewLineStepNoFlush(st, item) ==
    [st EXCEPT !.currentLineParts = <<item.str>>, !.lastItem = <<item>>]

\* lines 76-83: flush the current line and start a new one
NewLineStep(st, item) ==
    [pageLines |-> IF Len(st.currentLineParts) > 0
                   THEN Append(st.pageLines, Flatten(st.currentLineParts))
                   ELSE st.pageLines,
     currentLineParts |-> <<item.str>>,
     lastItem |-> <<item>>]

\* lines 86-87: different words
SpaceStep(st, item) ==
    [st EXCEPT !.currentLineParts = Append(@, <<" ">> \o item.str),
               !.lastItem = <<item>>]

\* lines 88-90: runs of one word
JoinStep(st, item) ==
    [st EXCEPT !.currentLineParts = Append(@, item.str), !.lastItem = <<item>>]

\* which branch of the loop body a fragment takes
Branch(st, item, th, cnt) ==
    IF IsBlank(item.str) THEN "blank"
    ELSE IF st.lastItem = <<>> THEN "first"
    ELSE IF IsNewLine(item, st.lastItem[1], th, cnt) THEN "newline"
    ELSE IF IsWordGap(item, st.lastItem[1], th, cnt) THEN "space"
    ELSE "join"

StepItem(st, item, th, cnt) ==
    LET b == Branch(st, item, th, cnt) IN
    CASE b = "blank" -> BlankStep(st, item)
      [] b = "first" -> FirstStep(st, item)
      [] b = "newline" -> NewLineStep(st, item)
      [] b = "space" -> SpaceStep(st, item)
      [] OTHER -> JoinStep(st, item)

\* FlushLines without the "currentLineParts.length > 0" test
FlushLinesAlways(st) == Append(st.pageLines, Flatten(st.currentLineParts))

\* lines 98-100: the last line is flushed when it has parts
FlushLines(st) ==
    IF Len(st.currentLineParts) > 0
    THEN Append(st.pageLines, Flatten(st.currentLineParts))
    ELSE st.pageLines

\* lines 48-50
LoopStart == [pageLines |-> <<>>, currentLineParts |-> <<>>, lastItem |-> <<>>]

RECURSIVE RunLoop(_, _, _, _)
RunLoop(st, its, th, cnt) ==
    IF its = <<>> THEN st
    ELSE RunLoop(StepItem(st, Head(its), th, cnt), Tail(its), th, cnt)

\* the lines of a page reconstructed with given font-size totals
LinesWith(its, th, cnt) == FlushLines(RunLoop(LoopStart, its, th, cnt))

-----------------------------------------------------------------------------
(* extractText as a state machine over one page *)

\* no file: the value of "file" outside processFile
NoFile == [name |-> [parts |-> <<>>, ext |-> ""], type |-> "", sizeMB |-> 0,
           readable |-> FALSE, raw |-> <<>>]

LoopState == [pageLines |-> pageLines, currentLineParts |-> currentLineParts,
              lastItem |-> lastItem]

InitExtract ==
    /\ items \in Pages
    /\ i = 1
    /\ totalHeight = 0
    /\ count = 0
    /\ pageLines = <<>>
    /\ currentLineParts = <<>>
    /\ lastItem = <<>>
    /\ pc = "avg"
    /\ text = <<>>
    /\ cleaned = <<>>
    /\ cleanedTwice = <<>>
    /\ cpc = "idle"
    /\ pdf = <<>>
    /\ pageNum = 0
    /\ fullText = <<>>
    /\ file = NoFile
    /\ result = <<>>
    /\ files = <<>>
    /\ fileIdx = 0
    /\ datasetEntries = <<>>
    /\ processedFiles = {}
    /\ isProcessing = FALSE
    /\ processedCount = 0
    /\ errorCount = 0
    /\ hpc = "idle"
    /\ existing = <<>>
    /\ newEntries = <<>>
    /\ merged = <<>>
    /\ jsonl = <<>>
    /\ storage = <<>>
    /\ currentPreviewIndex = NoIndex
    /\ checkboxAppealed = FALSE
    /\ checkboxCanceled = FALSE
    /\ lpc = "idle"
    /\ loadedEntries = <<>>
    /\ selections = 0
    /\ rejected = 0
    /\ parsed = <<>>
    /\ keysToDelete = <<>>
    /\ keysToAdd = <<>>
    /\ applyStatus = ""

\* line 31: "if (items.length === 0) continue"
SkipEmptyPage ==
    /\ pc = "avg"
    /\ Len(items) = 0
    /\ pc' = "done"
    /\ UNCHANGED <<items, i, totalHeight, count, pageLines, currentLineParts, lastItem>>
    /\ UNCHANGED <<cleanVars, docVars, procVars, appVars, jsonlVars, sessionVars>>

\* AvgFontSize with "let lastItem" hoisted out of the page loop
AvgFontSizeKeepsLast ==
    /\ pc = "avg"
    /\ Len(items) > 0
    /\ totalHeight' = SumHeights(items)
    /\ count' = CountHeights(items)
    /\ pageLines' = <<>>
    /\ currentLineParts' = <<>>
    /\ i' = 1
    /\ pc' = "loop"
    /\ UNCHANGED <<items, lastItem>>
    /\ UNCHANGED <<cleanVars, docVars, procVars, appVars, jsonlVars, sessionVars>>

\* lines 33-50: average font size, thresholds, loop state
AvgFontSize ==
    /\ pc = "avg"
    /\ Len(items) > 0
    /\ totalHeight' = SumHeights(items)
    /\ count' = CountHeights(items)
    /\ pageLines' = <<>>
    /\ currentLineParts' = <<>>
    /\ lastItem' = <<>>
    /\ i' = 1
    /\ pc' = "loop"
    /\ UNCHANGED items
    /\ UNCHANGED <<cleanVars, docVars, procVars, appVars, jsonlVars, sessionVars>>

\* the loop is at items[i], which goes through branch b of the body
AtBranch(b) ==
    /\ pc = "loop"
    /\ i <= Len(items)
    /\ Branch(LoopState, items[i], totalHeight, count) = b

\* the loop state becomes st and the loop moves to the next fragment
Advance(st) ==
    /\ pageLines' = st.pageLines
    /\ currentLineParts' = st.currentLineParts
    /\ lastItem' = st.lastItem
    /\ i' = i + 1
    /\ UNCHANGED <<items, totalHeight, count, pc>>
    /\ UNCHANGED <<cleanVars, docVars, procVars, appVars, jsonlVars, sessionVars>>

\* lines 56-59
SkipBlank ==
    /\ AtBranch("blank")
    /\ Advance(BlankStep(LoopState, items[i]))

\* lines 91-95
FirstFragment ==
    /\ AtBranch("first")
    /\ Advance(FirstStep(LoopState, items[i]))

\* lines 76-83
StartNewLine ==
    /\ AtBranch("newline")
    /\ Advance(NewLineStep(LoopState, items[i]))

\* lines 86-87 and 95
AppendWithSpace ==
    /\ AtBranch("space")
    /\ Advance(SpaceStep(LoopState, items[i]))

\* lines 88-90 and 95
AppendJoined ==
    /\ AtBranch("join")
    /\ Advance(JoinStep(LoopState, items[i]))

\* lines 98-100, end of the fragment loop
FlushPage ==
    /\ pc = "loop"
    /\ i > Len(items)
    /\ pageLines' = FlushLines(LoopState)
    /\ pc' = "done"
    /\ UNCHANGED <<items, i, totalHeight, count, currentLineParts, lastItem>>
    /\ UNCHANGED <<cleanVars, docVars, procVars, appVars, jsonlVars, sessionVars>>

NextExtract ==
    \/ SkipEmptyPage
    \/ AvgFontSize
    \/ SkipBlank
    \/ FirstFragment
    \/ StartNewLine
    \/ AppendWithSpace
    \/ AppendJoined
    \/ FlushPage

SpecExtract == InitExtract /\ [][NextExtract]_vars

-----------------------------------------------------------------------------
(* cleanText, lines 113-135.  Characters that TLA+ strings cannot hold are  *)
(* named by their code point.                                               *)

Cyr == "U+044F"        \* a letter of [а-яА-ЯёЁ]
Lat == "a"             \* a letter outside that class
Digit == "1"
Ctrl == "U+0001"       \* a character of [\x00-\x08\x0b\x0c\x0e-\x1f\x7f-\x9f]
Ellipsis == "U+2026"
Copyright == "U+00A9"  \* a glyph the table of lines 124-128 does not list

ControlChars == {Ctrl}
Punct == {".", ",", ";", ":", "!", "?"}
\* the class [а-яА-ЯёЁ0-9] of line 120
Digits == {"0", "1", "2", "3", "4", "5", "6", "7", "8", "9"}
CyrOrDigit == {Cyr} \cup Digits
Letters == {Cyr, Lat}

\* the table of lines 124-128
Replacements ==
    ("U+FB01" :> <<Cyr, Cyr>>) @@ ("U+FB02" :> <<Cyr, Cyr>>) @@
    ("U+FB00" :> <<Cyr, Cyr>>) @@ ("U+FB03" :> <<Cyr, Cyr, Cyr>>) @@
    ("U+FB04" :> <<Cyr, Cyr, Cyr>>) @@
    ("U+2013" :> <<"-">>) @@ ("U+2014" :> <<"-">>) @@
    ("U+00AB" :> <<"\"">>) @@ ("U+00BB" :> <<"\"">>) @@ ("U+201E" :> <<"\"">>) @@
    ("U+201A" :> <<"'">>) @@
    (Ellipsis :> <<".", ".", ".">>) @@ ("U+2022" :> <<"-">>)

\* line 117: text.replace(/[\x00-\x08\x0b\x0c\x0e-\x1f\x7f-\x9f]/g, '')
StripControl(s) == SelectSeq(s, LAMBDA c : c \notin ControlChars)

RECURSIVE TabsAndSpacesCollapsed(_)
\* TabsToSpaces as text.replace(/[ \t]+/g, ' '), which also collapses runs
TabsAndSpacesCollapsed(s) ==
    IF s = <<>> THEN <<>>
    ELSE IF Head(s) \in {" ", "\t"}
         THEN IF Len(s) > 1 /\ s[2] \in {" ", "\t"}
              THEN TabsAndSpacesCollapsed(Tail(s))
              ELSE <<" ">> \o TabsAndSpacesCollapsed(Tail(s))
         ELSE <<Head(s)>> \o TabsAndSpacesCollapsed(Tail(s))

\* line 118: text.replace(/\t/g, ' ')
TabsToSpaces(s) == [k \in 1..Len(s) |-> IF s[k] = "\t" THEN " " ELSE s[k]]

RECURSIVE RemoveSpaceBeforePunct(_)
\* line 119: text.replace(/\s+([.,;:!?])/g, '$1'): every whitespace run that
\* ends at a punctuation character is deleted
RemoveSpaceBeforePunct(s) ==
    IF s = <<>> THEN <<>>
    ELSE LET rest == RemoveSpaceBeforePunct(Tail(s)) IN
         IF Head(s) \in WhiteSpace /\ rest # <<>> /\ Head(rest) \in Punct
         THEN rest
         ELSE <<Head(s)>> \o rest

RECURSIVE InsertSpaceAfterPunct(_)
\* line 120: text.replace(/([.,;:!?])([а-яА-ЯёЁ0-9])/g, '$1 $2')
InsertSpaceAfterPunct(s) ==
    IF Len(s) < 2 THEN s
    ELSE IF s[1] \in Punct /\ s[2] \in CyrOrDigit
         THEN <<s[1], " ", s[2]>> \o InsertSpaceAfterPunct(Tail(Tail(s)))
         ELSE <<s[1]>> \o InsertSpaceAfterPunct(Tail(s))

RECURSIVE LeadingNewlines(_)
LeadingNewlines(s) ==
    IF s # <<>> /\ Head(s) = "\n" THEN 1 + LeadingNewlines(Tail(s)) ELSE 0

RECURSIVE CollapseNewlines(_)
\* line 121: text.replace(/\n{3,}/g, '\n\n')
CollapseNewlines(s) ==
    IF s = <<>> THEN <<>>
    ELSE LET n == LeadingNewlines(s) IN
         IF n = 0 THEN <<Head(s)>> \o CollapseNewlines(Tail(s))
         ELSE (IF n >= 3 THEN <<"\n", "\n">> ELSE SubSeq(s, 1, n))
                \o CollapseNewlines(SubSeq(s, n + 1, Len(s)))

RECURSIVE TrimStart(_)
TrimStart(s) ==
    IF s # <<>> /\ Head(s) \in WhiteSpace THEN TrimStart(Tail(s)) ELSE s

RECURSIVE TrimEnd(_)
TrimEnd(s) ==
    IF s # <<>> /\ s[Len(s)] \in WhiteSpace
    THEN TrimEnd(SubSeq(s, 1, Len(s) - 1)) ELSE s

\* String.prototype.trim
Trim(s) == TrimEnd(TrimStart(s))

RECURSIVE SplitLines(_)
\* text.split('\n')
SplitLines(s) ==
    IF \A k \in 1..Len(s) : s[k] # "\n" THEN <<s>>
    ELSE LET k == CHOOSE j \in 1..Len(s) :
                      s[j] = "\n" /\ \A m \in 1..(j - 1) : s[m] # "\n"
         IN <<SubSeq(s, 1, k - 1)>> \o SplitLines(SubSeq(s, k + 1, Len(s)))

RECURSIVE JoinLines(_)
\* lines.join('\n')
JoinLines(ls) ==
    IF ls = <<>> THEN <<>>
    ELSE IF Len(ls) = 1 THEN ls[1]
    ELSE ls[1] \o <<"\n">> \o JoinLines(Tail(ls))

\* line 122: text.split('\n').map(line => line.trim()).join('\n').trim()
TrimLines(s) ==
    LET ls == SplitLines(s) IN
    Trim(JoinLines([k \in 1..Len(ls) |-> Trim(ls[k])]))

\* lines 130-132: every key of the table replaced by its value
ApplyReplacements(s) ==
    Flatten([k \in 1..Len(s) |->
                IF s[k] \in DOMAIN Replacements THEN Replacements[s[k]] ELSE <<s[k]>>])

\* the value undefined, as the text of one token no alphabet holds
Undefined == <<"undefined">>

\* "if (!text) return ''": '' and undefined are falsy
cleanText(t) ==
    IF t = <<>> \/ t = Undefined THEN <<>>
    ELSE ApplyReplacements(TrimLines(CollapseNewlines(InsertSpaceAfterPunct(
             RemoveSpaceBeforePunct(TabsToSpaces(StripControl(t)))))))

-----------------------------------------------------------------------------
(* cleanText applied to a bounded text, and again to its own output *)

Alphabet == {Cyr, Lat, ".", " ", "\n", "\t", "\r", Ctrl, Ellipsis, Copyright}
LineAlphabet == {Lat, " ", "\n"}

StringsOver(chars, n) == UNION { [1..k -> chars] : k \in 0..n }

CleanInputs ==
    StringsOver(Alphabet, MaxTextLen) \cup StringsOver(LineAlphabet, MaxLinesLen)
        \cup {Undefined}

InitClean ==
    /\ text \in CleanInputs
    /\ cleaned = <<>>
    /\ cleanedTwice = <<>>
    /\ cpc = "in"
    /\ items = <<>>
    /\ i = 1
    /\ totalHeight = 0
    /\ count = 0
    /\ pageLines = <<>>
    /\ currentLineParts = <<>>
    /\ lastItem = <<>>
    /\ pc = "idle"
    /\ pdf = <<>>
    /\ pageNum = 0
    /\ fullText = <<>>
    /\ file = NoFile
    /\ result = <<>>
    /\ files = <<>>
    /\ fileIdx = 0
    /\ datasetEntries = <<>>
    /\ processedFiles = {}
    /\ isProcessing = FALSE
    /\ processedCount = 0
    /\ errorCount = 0
    /\ hpc = "idle"
    /\ existing = <<>>
    /\ newEntries = <<>>
    /\ merged = <<>>
    /\ jsonl = <<>>
    /\ storage = <<>>
    /\ currentPreviewIndex = NoIndex
    /\ checkboxAppealed = FALSE
    /\ checkboxCanceled = FALSE
    /\ lpc = "idle"
    /\ loadedEntries = <<>>
    /\ selections = 0
    /\ rejected = 0
    /\ parsed = <<>>
    /\ keysToDelete = <<>>
    /\ keysToAdd = <<>>
    /\ applyStatus = ""

\* cleanedText = this.cleanText(rawText)
Clean ==
    /\ cpc = "in"
    /\ cleaned' = cleanText(text)
    /\ cpc' = "once"
    /\ UNCHANGED <<text, cleanedTwice>>
    /\ UNCHANGED <<extractVars, docVars, procVars, appVars, jsonlVars, sessionVars>>

\* the normaliser run on its own output
CleanAgain ==
    /\ cpc = "once"
    /\ cleanedTwice' = cleanText(cleaned)
    /\ cpc' = "twice"
    /\ UNCHANGED <<text, cleaned>>
    /\ UNCHANGED <<extractVars, docVars, procVars, appVars, jsonlVars, sessionVars>>

NextClean == Clean \/ CleanAgain

SpecClean == InitClean /\ [][NextClean]_vars

-----------------------------------------------------------------------------
(* Both components side by side: a run reconstructs a page or normalises a  *)
(* text                                                                     *)

InitCore == InitExtract \/ InitClean

NextCore == NextExtract \/ NextClean

SpecCore == InitCore /\ [][NextCore]_vars

-----------------------------------------------------------------------------
(* extractText over a whole document, lines 14-111, followed by cleanText   *)
(* as processFile chains them (lines 177-180)                               *)

\* a fragment of the document model: baseline y = 0; "measured" ones carry
\* width 8 and height 20, the others carry neither
DocFragment(s, fx, measured) ==
    [str |-> s, x |-> fx, y |-> 0,
     width |-> IF measured THEN 8 ELSE 0, height |-> IF measured THEN 20 ELSE 0]

\* an empty-string fragment, words that abut, words a gap apart, and a word
\* that starts left of its predecessor
DocFragments ==
    { DocFragment(<<>>, 0, FALSE),
      DocFragment(<<"a">>, 0, FALSE),
      DocFragment(<<"b">>, 0, TRUE),
      DocFragment(<<"a">>, 8, FALSE),
      DocFragment(<<"b">>, 14, FALSE) }

\* the document of n pages whose fragments are s, fragment k on page pg[k]
DocOf(s, n, pg) ==
    [p \in 1..n |->
        SubSeq(s, Cardinality({k \in 1..Len(s) : pg[k] < p}) + 1,
                  Cardinality({k \in 1..Len(s) : pg[k] <= p}))]

Docs ==
    UNION { { DocOf(s, n, pg) :
                pg \in { f \in [1..Len(s) -> 1..n] :
                            \A k \in 1..(Len(s) - 1) : f[k] <= f[k + 1] } } :
            s \in UNION { [1..m -> DocFragments] : m \in 0..MaxDocItems },
            n \in 0..MaxPages }

\* pdf.numPages
numPages == Len(pdf)

\* String(pageNum) for the page numbers a bounded document has
PageDigit(n) == <<"1", "2", "3", "4", "5", "6", "7", "8", "9">>[n]

\* line 102: "--- СТРАНИЦА ${pageNum} ---"
PageMarker(n) ==
    <<"-", "-", "-", " ", Cyr, Cyr, Cyr, Cyr, Cyr, Cyr, Cyr, Cyr, " ",
      PageDigit(n), " ", "-", "-", "-">>

\* PageText with a space instead of the line break after the marker
PageTextMarkerInline(page) ==
    PageMarker(page.pageNum) \o <<" ">> \o JoinLines(page.pageLines) \o <<"\n">>

\* line 102: `--- СТРАНИЦА ${pageNum} ---\n${pageLines.join('\n')}\n`
PageText(page) ==
    PageMarker(page.pageNum) \o <<"\n">> \o JoinLines(page.pageLines) \o <<"\n">>

RECURSIVE JoinPages(_)
\* line 105: fullText.join('\n\n')
JoinPages(pages) ==
    IF pages = <<>> THEN <<>>
    ELSE IF Len(pages) = 1 THEN PageText(pages[1])
    ELSE PageText(pages[1]) \o <<"\n", "\n">> \o JoinPages(Tail(pages))

InitDoc ==
    /\ pdf \in Docs
    /\ pageNum = 1
    /\ fullText = <<>>
    /\ items = <<>>
    /\ i = 1
    /\ totalHeight = 0
    /\ count = 0
    /\ pageLines = <<>>
    /\ currentLineParts = <<>>
    /\ lastItem = <<>>
    /\ pc = "page"
    /\ text = <<>>
    /\ cleaned = <<>>
    /\ cleanedTwice = <<>>
    /\ cpc = "idle"
    /\ file = NoFile
    /\ result = <<>>
    /\ files = <<>>
    /\ fileIdx = 0
    /\ datasetEntries = <<>>
    /\ processedFiles = {}
    /\ isProcessing = FALSE
    /\ processedCount = 0
    /\ errorCount = 0
    /\ hpc = "idle"
    /\ existing = <<>>
    /\ newEntries = <<>>
    /\ merged = <<>>
    /\ jsonl = <<>>
    /\ storage = <<>>
    /\ currentPreviewIndex = NoIndex
    /\ checkboxAppealed = FALSE
    /\ checkboxCanceled = FALSE
    /\ lpc = "idle"
    /\ loadedEntries = <<>>
    /\ selections = 0
    /\ rejected = 0
    /\ parsed = <<>>
    /\ keysToDelete = <<>>
    /\ keysToAdd = <<>>
    /\ applyStatus = ""

\* lines 26-29: the next page and its textContent.items
GetPage ==
    /\ pc = "page"
    /\ pageNum <= numPages
    /\ items' = pdf[pageNum]
    /\ pc' = "avg"
    /\ UNCHANGED <<i, totalHeight, count, pageLines, currentLineParts, lastItem>>
    /\ UNCHANGED <<cleanVars, docVars, procVars, appVars, jsonlVars, sessionVars>>

\* line 31, "continue": a page without fragments pushes nothing
ContinuePage ==
    /\ pc = "done"
    /\ Len(items) = 0
    /\ pageNum' = pageNum + 1
    /\ pc' = "page"
    /\ UNCHANGED <<items, i, totalHeight, count, pageLines, currentLineParts, lastItem>>
    /\ UNCHANGED <<pdf, fullText>>
    /\ UNCHANGED <<cleanVars, procVars, appVars, jsonlVars, sessionVars>>

\* line 102 and the loop increment of line 26
PushPage ==
    /\ pc = "done"
    /\ Len(items) > 0
    /\ fullText' = Append(fullText, [pageNum |-> pageNum, pageLines |-> pageLines])
    /\ pageNum' = pageNum + 1
    /\ pc' = "page"
    /\ UNCHANGED <<items, i, totalHeight, count, pageLines, currentLineParts, lastItem>>
    /\ UNCHANGED pdf
    /\ UNCHANGED <<cleanVars, procVars, appVars, jsonlVars, sessionVars>>

\* line 105 and line 177: the joined pages become the argument of cleanText
ReturnText ==
    /\ pc = "page"
    /\ pageNum > numPages
    /\ text' = JoinPages(fullText)
    /\ cpc' = "in"
    /\ pc' = "returned"
    /\ UNCHANGED <<items, i, totalHeight, count, pageLines, currentLineParts, lastItem>>
    /\ UNCHANGED <<cleaned, cleanedTwice>>
    /\ UNCHANGED <<docVars, procVars, appVars, jsonlVars, sessionVars>>

NextDoc ==
    \/ GetPage
    \/ SkipEmptyPage
    \/ AvgFontSize
    \/ SkipBlank
    \/ FirstFragment
    \/ StartNewLine
    \/ AppendWithSpace
    \/ AppendJoined
    \/ FlushPage
    \/ ContinuePage
    \/ PushPage
    \/ ReturnText
    \/ Clean

SpecDoc == InitDoc /\ [][NextDoc]_vars

-----------------------------------------------------------------------------
(* processFile, lines 168-204, with extractCaseInfo, lines 137-166.  A file  *)
(* is its name, its MIME type and size, whether extractText can read it,    *)
(* and the text extractText returns for it.  A file name is kept as its     *)
(* extension and the parts the rest splits into at '_' (lines 138-139).     *)

\* the value null, as a token no name part equals
Null == <<"null">>

\* what "!v" calls truthy for a string or null
Truthy(v) == v # Null /\ v # <<>>

CasePart == <<"A", "6", "0", "-", "7", "-", "2", "4">>
DatePart == <<"2", "0", "2", "4", "0", "1", "1", "5">>
YearPart == <<"2", "0", "2", "4">>

NameParts == { <<>>, CasePart, DatePart, YearPart }

FileNames ==
    { [parts |-> ps, ext |-> "pdf"] :
        ps \in UNION { [1..n -> NameParts] : n \in 1..MaxNameParts } }

\* "s.length === 8 && /^\d+$/.test(s)"
IsDateStr(s) == Len(s) = 8 /\ \A k \in 1..Len(s) : s[k] \in Digits

\* `${s.slice(0,4)}-${s.slice(4,6)}-${s.slice(6,8)}`
FormatDate(s) == SubSeq(s, 1, 4) \o <<"-">> \o SubSeq(s, 5, 6) \o <<"-">> \o SubSeq(s, 7, 8)

RECURSIVE LaterDate(_, _)
\* lines 155-163: the first date among parts[k..], or null
LaterDate(parts, k) ==
    IF k > Len(parts) THEN Null
    ELSE IF IsDateStr(parts[k]) THEN FormatDate(parts[k])
    ELSE LaterDate(parts, k + 1)

\* lines 137-166
extractCaseInfo(filename) ==
    LET parts == filename.parts IN
    IF Len(parts) >= 2
    THEN [caseNumber |-> parts[1],
          decisionDate |-> IF IsDateStr(parts[2]) THEN FormatDate(parts[2])
                           ELSE LaterDate(parts, 3),
          rawFilename |-> filename]
    ELSE [caseNumber |-> Null, decisionDate |-> Null, rawFilename |-> filename]

\* line 182: "cleanedText.length < 100"
MinTextLength == 100

\* a run of Latin letters, MinTextLength - 4 of them, kept as one token: no
\* step of cleanText looks at a Latin letter, so the run passes through whole
Filler == "a..a"
FillerLength == MinTextLength - 4

RECURSIVE TextLength(_)
\* String.prototype.length
TextLength(s) ==
    IF s = <<>> THEN 0
    ELSE (IF Head(s) = Filler THEN FillerLength ELSE 1) + TextLength(Tail(s))

\* the messages of the errors processFile catches
BadFileName == "Bad file name"          \* line 173
ExtractionFailed == "Extraction failed" \* whatever extractText rethrows, line 108
TextTooShort == "Text too short"        \* line 183

\* lines 197-203
Failure(message, f) == [success |-> FALSE, error |-> message, filename |-> f.name]

\* processFile with the length check on rawText
processFileRawLength(f) ==
    LET fileInfo == extractCaseInfo(f.name) IN
    IF ~Truthy(fileInfo.caseNumber) \/ ~Truthy(fileInfo.decisionDate)
    THEN Failure(BadFileName, f)
    ELSE IF ~f.readable THEN Failure(ExtractionFailed, f)
    ELSE LET cleanedText == cleanText(f.raw) IN
         IF TextLength(f.raw) < MinTextLength THEN Failure(TextTooShort, f)
         ELSE [success |-> TRUE,
               caseNumber |-> fileInfo.caseNumber,
               decisionDate |-> fileInfo.decisionDate,
               text |-> cleanedText,
               filename |-> f.name,
               textLength |-> TextLength(cleanedText)]

\* lines 168-204
processFile(f) ==
    LET fileInfo == extractCaseInfo(f.name) IN
    IF ~Truthy(fileInfo.caseNumber) \/ ~Truthy(fileInfo.decisionDate)
    THEN Failure(BadFileName, f)
    ELSE IF ~f.readable THEN Failure(ExtractionFailed, f)
    ELSE LET cleanedText == cleanText(f.raw) IN
         IF TextLength(cleanedText) < MinTextLength THEN Failure(TextTooShort, f)
         ELSE [success |-> TRUE,
               caseNumber |-> fileInfo.caseNumber,
               decisionDate |-> fileInfo.decisionDate,
               text |-> cleanedText,
               filename |-> f.name,
               textLength |-> TextLength(cleanedText)]

\* texts whose length, raw or normalised, is at or next to the threshold
RawTexts ==
    { <<>>,
      <<Filler, Lat, Lat, Lat>>,
      <<Filler, Lat, Lat, Lat, Lat>>,
      <<" ", Filler, Lat, Lat, Lat, "\n">>,
      <<Filler, Lat, Lat, Ellipsis>> }

PdfType == "application/pdf"

Files ==
    { [name |-> n, type |-> PdfType, sizeMB |-> 1, readable |-> r, raw |-> t] :
        n \in FileNames, r \in BOOLEAN, t \in RawTexts }

InitProcess ==
    /\ file \in Files
    /\ result = <<>>
    /\ items = <<>>
    /\ i = 1
    /\ totalHeight = 0
    /\ count = 0
    /\ pageLines = <<>>
    /\ currentLineParts = <<>>
    /\ lastItem = <<>>
    /\ pc = "idle"
    /\ text = <<>>
    /\ cleaned = <<>>
    /\ cleanedTwice = <<>>
    /\ cpc = "idle"
    /\ pdf = <<>>
    /\ pageNum = 0
    /\ fullText = <<>>
    /\ files = <<>>
    /\ fileIdx = 0
    /\ datasetEntries = <<>>
    /\ processedFiles = {}
    /\ isProcessing = FALSE
    /\ processedCount = 0
    /\ errorCount = 0
    /\ hpc = "idle"
    /\ existing = <<>>
    /\ newEntries = <<>>
    /\ merged = <<>>
    /\ jsonl = <<>>
    /\ storage = <<>>
    /\ currentPreviewIndex = NoIndex
    /\ checkboxAppealed = FALSE
    /\ checkboxCanceled = FALSE
    /\ lpc = "idle"
    /\ loadedEntries = <<>>
    /\ selections = 0
    /\ rejected = 0
    /\ parsed = <<>>
    /\ keysToDelete = <<>>
    /\ keysToAdd = <<>>
    /\ applyStatus = ""

\* "const result = await PDFProcessor.processFile(file, ...)"
ProcessFile ==
    /\ file # NoFile
    /\ result = <<>>
    /\ result' = <<processFile(file)>>
    /\ UNCHANGED file
    /\ UNCHANGED <<extractVars, cleanVars, docVars, appVars, jsonlVars, sessionVars>>

NextProcess == ProcessFile

SpecProcess == InitProcess /\ [][NextProcess]_vars

-----------------------------------------------------------------------------
(* handleProcessPDFs, src/js/app.js lines 411-523, with validateFile (lines  *)
(* 205-250) and JSONLHandler.createEntry (src/js/jsonl-handler.js 11-44)     *)

\* isValidPDF, app.js lines 98-110; the extension is kept in lower case
isValidPDF(f) == f.type = PdfType \/ f.name.ext = "pdf"

\* isValidFileSize, app.js lines 115-118
MaxSizeMB == 50
isValidFileSize(f) == f.sizeMB <= MaxSizeMB

\* app.js line 155: "result.caseNumber.length < 5"
MinCaseNumberLength == 5

\* extractCaseInfo of app.js, lines 127-199: is the name valid
ValidCaseInfo(filename) ==
    LET parts == filename.parts IN
    /\ Len(parts) >= 2
    /\ Truthy(parts[1])
    /\ Len(parts[1]) >= MinCaseNumberLength
    /\ (IsDateStr(parts[2]) \/ LaterDate(parts, 3) # Null)

\* validateFile(file).isValid, app.js lines 205-250
validateFile(f) == isValidPDF(f) /\ isValidFileSize(f) /\ ValidCaseInfo(f.name)

CyrA == "U+0410"       \* the Cyrillic capital letter А

\* the last index of s that holds c; s holds c
LastIndexOf(s, c) ==
    CHOOSE k \in 1..Len(s) : s[k] = c /\ \A m \in (k + 1)..Len(s) : s[m] # c

\* normalizeCaseNumber without the test "!normalized.includes('/')"
normalizeCaseNumberSlashAgain(caseNumber) ==
    IF ~Truthy(caseNumber) THEN <<>>
    ELSE LET normalized == IF Head(caseNumber) \in {"A", "a"}
                           THEN <<CyrA>> \o Tail(caseNumber)
                           ELSE caseNumber
             dashes == Cardinality({k \in 1..Len(normalized) : normalized[k] = "-"})
         IN IF dashes >= 2
            THEN [normalized EXCEPT ![LastIndexOf(normalized, "-")] = "/"]
            ELSE normalized

\* jsonl-handler.js lines 11-24
normalizeCaseNumber(caseNumber) ==
    IF ~Truthy(caseNumber) THEN <<>>
    ELSE LET normalized == IF Head(caseNumber) \in {"A", "a"}
                           THEN <<CyrA>> \o Tail(caseNumber)
                           ELSE caseNumber
             dashes == Cardinality({k \in 1..Len(normalized) : normalized[k] = "-"})
         IN IF dashes >= 2 /\ \A k \in 1..Len(normalized) : normalized[k] # "/"
            THEN [normalized EXCEPT ![LastIndexOf(normalized, "-")] = "/"]
            ELSE normalized

\* jsonl-handler.js lines 29-44 and app.js line 474; the constant metadata and
\* the creation time are left out
createEntry(caseNumber, decisionDate, txt, filename) ==
    [case_number |-> normalizeCaseNumber(caseNumber),
     decision_date |-> decisionDate,
     decision_text |-> txt,
     source_filename |-> filename]

LongText == <<Filler, Lat, Lat, Lat, Lat>>
ShortText == <<Lat>>

BatchNames ==
    { [parts |-> ps, ext |-> "pdf"] :
        ps \in { <<CasePart, DatePart>>, <<CasePart, YearPart, DatePart>>, <<CasePart>> } }

\* PDFs with good and bad names, readable or not, long or short, one file
\* that is no PDF and one that is too large
BatchFiles ==
    { [name |-> n, type |-> PdfType, sizeMB |-> 1, readable |-> r, raw |-> t] :
        n \in BatchNames, r \in BOOLEAN, t \in {LongText, ShortText} }
    \cup { [name |-> [parts |-> <<CasePart, DatePart>>, ext |-> "txt"],
            type |-> "text/plain", sizeMB |-> 1, readable |-> TRUE, raw |-> LongText],
           [name |-> [parts |-> <<CasePart, DatePart>>, ext |-> "pdf"],
            type |-> PdfType, sizeMB |-> MaxSizeMB + 1, readable |-> TRUE,
            raw |-> LongText] }

InitBatch ==
    /\ files \in UNION { [1..n -> BatchFiles] : n \in 0..MaxFiles }
    /\ fileIdx = 0
    /\ datasetEntries = <<>>
    /\ processedFiles = {}
    /\ isProcessing = FALSE
    /\ processedCount = 0
    /\ errorCount = 0
    /\ hpc = "idle"
    /\ file = NoFile
    /\ result = <<>>
    /\ items = <<>>
    /\ i = 1
    /\ totalHeight = 0
    /\ count = 0
    /\ pageLines = <<>>
    /\ currentLineParts = <<>>
    /\ lastItem = <<>>
    /\ pc = "idle"
    /\ text = <<>>
    /\ cleaned = <<>>
    /\ cleanedTwice = <<>>
    /\ cpc = "idle"
    /\ pdf = <<>>
    /\ pageNum = 0
    /\ fullText = <<>>
    /\ existing = <<>>
    /\ newEntries = <<>>
    /\ merged = <<>>
    /\ jsonl = <<>>
    /\ storage = <<>>
    /\ currentPreviewIndex = NoIndex
    /\ checkboxAppealed = FALSE
    /\ checkboxCanceled = FALSE
    /\ lpc = "idle"
    /\ loadedEntries = <<>>
    /\ selections = 0
    /\ rejected = 0
    /\ parsed = <<>>
    /\ keysToDelete = <<>>
    /\ keysToAdd = <<>>
    /\ applyStatus = ""

\* app.js lines 416-419: nothing selected
ReturnNoFiles ==
    /\ hpc = "idle"
    /\ Len(files) = 0
    /\ hpc' = "done"
    /\ UNCHANGED <<files, fileIdx, datasetEntries, processedFiles, isProcessing,
                   processedCount, errorCount>>
    /\ UNCHANGED <<extractVars, cleanVars, docVars, procVars, jsonlVars, sessionVars>>

\* app.js lines 421-435: the lock is free and is taken
StartBatch ==
    /\ hpc = "idle"
    /\ Len(files) > 0
    /\ ~isProcessing
    /\ isProcessing' = TRUE
    /\ processedCount' = 0
    /\ errorCount' = 0
    /\ fileIdx' = 1
    /\ hpc' = "loop"
    /\ UNCHANGED <<files, datasetEntries, processedFiles>>
    /\ UNCHANGED <<extractVars, cleanVars, docVars, procVars, jsonlVars, sessionVars>>

\* the file loop is at a file
AtFile ==
    /\ hpc = "loop"
    /\ fileIdx <= Len(files)

\* app.js lines 440-443
SkipProcessed ==
    /\ AtFile
    /\ files[fileIdx].name \in processedFiles
    /\ fileIdx' = fileIdx + 1
    /\ UNCHANGED <<files, datasetEntries, processedFiles, isProcessing,
                   processedCount, errorCount, hpc>>
    /\ UNCHANGED <<extractVars, cleanVars, docVars, procVars, jsonlVars, sessionVars>>

\* app.js lines 446-452
RejectInvalid ==
    /\ AtFile
    /\ files[fileIdx].name \notin processedFiles
    /\ ~validateFile(files[fileIdx])
    /\ errorCount' = errorCount + 1
    /\ fileIdx' = fileIdx + 1
    /\ UNCHANGED <<files, datasetEntries, processedFiles, isProcessing,
                   processedCount, hpc>>
    /\ UNCHANGED <<extractVars, cleanVars, docVars, procVars, jsonlVars, sessionVars>>

\* app.js lines 454-462, up to the await
CallProcessFile ==
    /\ AtFile
    /\ files[fileIdx].name \notin processedFiles
    /\ validateFile(files[fileIdx])
    /\ file' = files[fileIdx]
    /\ result' = <<>>
    /\ hpc' = "await"
    /\ UNCHANGED <<files, fileIdx, datasetEntries, processedFiles, isProcessing,
                   processedCount, errorCount>>
    /\ UNCHANGED <<extractVars, cleanVars, docVars, jsonlVars, sessionVars>>

\* AddEntry without "AppState.processedFiles.add(file.name)"
AddEntryNameForgotten ==
    /\ hpc = "await"
    /\ result # <<>>
    /\ result[1].success
    /\ datasetEntries' =
          Append(datasetEntries,
                 createEntry(result[1].caseNumber, result[1].decisionDate,
                             result[1].text, result[1].filename))
    /\ processedCount' = processedCount + 1
    /\ fileIdx' = fileIdx + 1
    /\ hpc' = "loop"
    /\ file' = NoFile
    /\ result' = <<>>
    /\ UNCHANGED <<files, processedFiles, isProcessing, errorCount>>
    /\ UNCHANGED <<extractVars, cleanVars, docVars, jsonlVars, sessionVars>>

\* app.js lines 464-480
AddEntry ==
    /\ hpc = "await"
    /\ result # <<>>
    /\ result[1].success
    /\ datasetEntries' =
          Append(datasetEntries,
                 createEntry(result[1].caseNumber, result[1].decisionDate,
                             result[1].text, result[1].filename))
    /\ processedFiles' = processedFiles \cup {file.name}
    /\ processedCount' = processedCount + 1
    /\ fileIdx' = fileIdx + 1
    /\ hpc' = "loop"
    /\ file' = NoFile
    /\ result' = <<>>
    /\ UNCHANGED <<files, isProcessing, errorCount>>
    /\ UNCHANGED <<extractVars, cleanVars, docVars, jsonlVars, sessionVars>>

\* CountError with a "break" after the error is counted
CountErrorBreaks ==
    /\ hpc = "await"
    /\ result # <<>>
    /\ ~result[1].success
    /\ errorCount' = errorCount + 1
    /\ fileIdx' = Len(files) + 1
    /\ hpc' = "loop"
    /\ file' = NoFile
    /\ result' = <<>>
    /\ UNCHANGED <<files, datasetEntries, processedFiles, isProcessing, processedCount>>
    /\ UNCHANGED <<extractVars, cleanVars, docVars, jsonlVars, sessionVars>>

\* app.js lines 481-484
CountError ==
    /\ hpc = "await"
    /\ result # <<>>
    /\ ~result[1].success
    /\ errorCount' = errorCount + 1
    /\ fileIdx' = fileIdx + 1
    /\ hpc' = "loop"
    /\ file' = NoFile
    /\ result' = <<>>
    /\ UNCHANGED <<files, datasetEntries, processedFiles, isProcessing, processedCount>>
    /\ UNCHANGED <<extractVars, cleanVars, docVars, jsonlVars, sessionVars>>

\* saveToLocalStorage, app.js lines 1714-1726: the item written, a copy of
\* the entries and of the processed names as they are at the call
Snapshot(entries, processed) == [entries |-> entries, processedFiles |-> processed]

\* app.js lines 487-508: after the last file the dataset is saved and the
\* lock is released
FinishBatch ==
    /\ hpc = "loop"
    /\ fileIdx > Len(files)
    /\ storage' = <<Snapshot(datasetEntries, processedFiles)>>
    /\ isProcessing' = FALSE
    /\ hpc' = "done"
    /\ UNCHANGED <<files, fileIdx, datasetEntries, processedFiles,
                   processedCount, errorCount>>
    /\ UNCHANGED <<extractVars, cleanVars, docVars, procVars, jsonlVars>>
    /\ UNCHANGED <<uiVars, loadVars, selections, rejected, parsed, editorVars>>

NextBatch ==
    \/ ReturnNoFiles
    \/ StartBatch
    \/ SkipProcessed
    \/ RejectInvalid
    \/ CallProcessFile
    \/ ProcessFile
    \/ AddEntry
    \/ CountError
    \/ FinishBatch

SpecBatch == InitBatch /\ [][NextBatch]_vars

-----------------------------------------------------------------------------
(* JSONLHandler.toJSONL and JSONLHandler.mergeDatasets,                     *)
(* src/js/jsonl-handler.js lines 65-70 and 208-234.  An entry is kept as    *)
(* its case_number and its decision_text; an object key is one token.       *)

\* JSON.stringify of a character inside a string
Escape(c) ==
    IF c = "\"" THEN <<"\\", "\"">>
    ELSE IF c = "\\" THEN <<"\\", "\\">>
    ELSE IF c = "\n" THEN <<"\\", "n">>
    ELSE IF c = "\r" THEN <<"\\", "r">>
    ELSE IF c = "\t" THEN <<"\\", "t">>
    ELSE <<c>>

\* JSON.stringify of a string
Quote(str) == <<"\"">> \o Flatten([k \in 1..Len(str) |-> Escape(str[k])]) \o <<"\"">>

RECURSIVE JoinWith(_, _)
\* Array.prototype.join(sep)
JoinWith(ss, sep) ==
    IF ss = <<>> THEN <<>>
    ELSE IF Len(ss) = 1 THEN ss[1]
    ELSE ss[1] \o sep \o JoinWith(Tail(ss), sep)

\* the members an entry may have, in the order the application creates them
\* (createEntry, then handleSaveChanges); metadata is kept as its member
\* source_filename
EntryKeys == <<"case_number", "decision_date", "decision_text", "source_filename",
               "appealed", "canceled">>
FlagKeys == {"appealed", "canceled"}

\* the file name null: createEntry's default for filename
NoName == NoFile.name

RECURSIVE SplitAt(_, _)
\* String.prototype.split(sep), sep one character
SplitAt(s, sep) ==
    IF \A k \in 1..Len(s) : s[k] # sep THEN <<s>>
    ELSE LET k == CHOOSE j \in 1..Len(s) :
                      s[j] = sep /\ \A m \in 1..(j - 1) : s[m] # sep
         IN <<SubSeq(s, 1, k - 1)>> \o SplitAt(SubSeq(s, k + 1, Len(s)), sep)

\* a file name as the string it is: its parts joined by '_', a dot and the
\* extension, the extension being one token
NameString(name) == JoinWith(name.parts, <<"_">>) \o <<".", name.ext>>

\* the file name a string is; the string is the text of a file name
NameOf(str) ==
    [parts |-> SplitAt(SubSeq(str, 1, Len(str) - 2), "_"), ext |-> str[Len(str)]]

\* the members of the entry, in order
KeysOf(entry) == SelectSeq(EntryKeys, LAMBDA k : k \in DOMAIN entry)

\* JSON.stringify of a member's value: a boolean, null or a string
JSON_value(entry, key) ==
    IF key \in FlagKeys THEN (IF entry[key] THEN <<"true">> ELSE <<"false">>)
    ELSE IF key = "source_filename"
         THEN (IF entry[key] = NoName THEN <<"null">>
               ELSE Quote(NameString(entry[key])))
    ELSE IF entry[key] = <<"null">> THEN <<"null">>
    ELSE Quote(entry[key])

\* JSON_stringify as JSON.stringify(entry, null, 2), one member per line
JSON_stringifyIndented(entry) ==
    <<"{", "\n", " ", " ">>
        \o JoinWith([k \in 1..Len(KeysOf(entry)) |->
                        Quote(<<KeysOf(entry)[k]>>) \o <<":", " ">>
                            \o JSON_value(entry, KeysOf(entry)[k])],
                    <<",", "\n", " ", " ">>)
        \o <<"\n", "}">>

\* JSON.stringify(entry), line 68
JSON_stringify(entry) ==
    <<"{">>
        \o JoinWith([k \in 1..Len(KeysOf(entry)) |->
                        Quote(<<KeysOf(entry)[k]>>) \o <<":">>
                            \o JSON_value(entry, KeysOf(entry)[k])],
                    <<",">>)
        \o <<"}">>

\* lines 65-70
toJSONL(entries) ==
    JoinWith([k \in 1..Len(entries) |-> JSON_stringify(entries[k])], <<"\n">>)

\* the case numbers of the entries that have one, lines 213-215
CasesOf(entries) ==
    { entries[k].case_number : k \in { j \in 1..Len(entries) : Truthy(entries[j].case_number) } }

RECURSIVE MergeLoopNoAdd(_, _, _)
\* MergeLoop without "existingCases.add(entry.case_number)"
MergeLoopNoAdd(merged0, existingCases, rest) ==
    IF rest = <<>> THEN merged0
    ELSE LET entry == Head(rest) IN
         IF ~Truthy(entry.case_number) \/ entry.case_number \notin existingCases
         THEN MergeLoopNoAdd(Append(merged0, entry), existingCases, Tail(rest))
         ELSE MergeLoopNoAdd(merged0, existingCases, Tail(rest))

RECURSIVE MergeLoop(_, _, _)
\* lines 220-231
MergeLoop(merged0, existingCases, rest) ==
    IF rest = <<>> THEN merged0
    ELSE LET entry == Head(rest) IN
         IF ~Truthy(entry.case_number) \/ entry.case_number \notin existingCases
         THEN MergeLoop(Append(merged0, entry),
                        IF Truthy(entry.case_number)
                        THEN existingCases \cup {entry.case_number}
                        ELSE existingCases,
                        Tail(rest))
         ELSE MergeLoop(merged0, existingCases, Tail(rest))

\* lines 208-234: the array returned and the array "existing" after the call;
\* "merged" is a copy ([...existing]), so the pushes leave "existing" alone
mergeDatasets(existing0, newEntries0) ==
    [merged |-> MergeLoop(existing0, CasesOf(existing0), newEntries0),
     existing |-> existing0]

EntryCases == { <<>>, <<CyrA, "1">>, <<CyrA, "2">> }
EntryTexts == { <<Lat>>, <<"\"", "\n", "\\">> }

Entries == { [case_number |-> c, decision_text |-> t] : c \in EntryCases, t \in EntryTexts }

Datasets == UNION { [1..n -> Entries] : n \in 0..MaxEntries }

InitJsonl ==
    /\ existing \in Datasets
    /\ newEntries \in Datasets
    /\ merged = <<>>
    /\ jsonl = <<>>
    /\ items = <<>>
    /\ i = 1
    /\ totalHeight = 0
    /\ count = 0
    /\ pageLines = <<>>
    /\ currentLineParts = <<>>
    /\ lastItem = <<>>
    /\ pc = "idle"
    /\ text = <<>>
    /\ cleaned = <<>>
    /\ cleanedTwice = <<>>
    /\ cpc = "idle"
    /\ pdf = <<>>
    /\ pageNum = 0
    /\ fullText = <<>>
    /\ file = NoFile
    /\ result = <<>>
    /\ files = <<>>
    /\ fileIdx = 0
    /\ datasetEntries = <<>>
    /\ processedFiles = {}
    /\ isProcessing = FALSE
    /\ processedCount = 0
    /\ errorCount = 0
    /\ hpc = "idle"
    /\ storage = <<>>
    /\ currentPreviewIndex = NoIndex
    /\ checkboxAppealed = FALSE
    /\ checkboxCanceled = FALSE
    /\ lpc = "idle"
    /\ loadedEntries = <<>>
    /\ selections = 0
    /\ rejected = 0
    /\ parsed = <<>>
    /\ keysToDelete = <<>>
    /\ keysToAdd = <<>>
    /\ applyStatus = ""

\* JSONLHandler.toJSONL(existing)
ToJSONL ==
    /\ jsonl = <<>>
    /\ jsonl' = <<toJSONL(existing)>>
    /\ UNCHANGED <<existing, newEntries, merged>>
    /\ UNCHANGED <<extractVars, cleanVars, docVars, procVars, appVars, sessionVars>>

\* JSONLHandler.mergeDatasets(existing, newEntries)
MergeDatasets ==
    /\ merged = <<>>
    /\ merged' = <<mergeDatasets(existing, newEntries).merged>>
    /\ existing' = mergeDatasets(existing, newEntries).existing
    /\ UNCHANGED <<newEntries, jsonl>>
    /\ UNCHANGED <<extractVars, cleanVars, docVars, procVars, appVars, sessionVars>>

NextJsonl == ToJSONL \/ MergeDatasets

SpecJsonl == InitJsonl /\ [][NextJsonl]_vars

-----------------------------------------------------------------------------
(* Properties of the reconstruction loop *)

\* the characters of s that are not whitespace
NonWs(s) == SelectSeq(s, LAMBDA c : c \notin WhiteSpace)

\* the texts of the non-blank fragments, in stream order
RECURSIVE NonBlankTexts(_)
NonBlankTexts(its) ==
    IF its = <<>> THEN <<>>
    ELSE IF IsBlank(Head(its).str) THEN NonBlankTexts(Tail(its))
    ELSE <<Head(its).str>> \o NonBlankTexts(Tail(its))

\* the fragments of a page without the blank ones
NonBlankItems(its) == SelectSeq(its, LAMBDA it : ~IsBlank(it.str))

\* the texts ts concatenated, text k preceded by one space where sp[k] holds
RECURSIVE Weave(_, _, _)
Weave(ts, sp, k) ==
    IF k > Len(ts) THEN <<>>
    ELSE (IF sp[k] THEN <<" ">> ELSE <<>>) \o ts[k] \o Weave(ts, sp, k + 1)

\* s is the texts ts in order with nothing between them but single spaces
IsWeaveOf(s, ts) == \E sp \in [1..Len(ts) -> BOOLEAN] : s = Weave(ts, sp, 1)

\* the loop is about to process a non-blank fragment that has a predecessor
AtFragmentWithLast ==
    /\ pc = "loop"
    /\ i <= Len(items)
    /\ ~IsBlank(items[i].str)
    /\ lastItem # <<>>

\* C1: when the page is done, the lines without their line breaks are the
\* non-blank fragment texts in stream order, each once, with nothing between
\* them but single inserted spaces; so the non-whitespace characters of the
\* lines are exactly those of the fragments.
C1_TextPreserved ==
    pc = "done" =>
        LET ts == NonBlankTexts(items) IN
        /\ IsWeaveOf(Flatten(pageLines), ts)
        /\ NonWs(Flatten(pageLines)) = NonWs(Flatten([k \in 1..Len(items) |-> items[k].str]))

\* a finished page of two non-blank fragments around a blank one, on two lines
C1_Witness ==
    /\ pc = "done"
    /\ Len(items) = 3
    /\ ~IsBlank(items[1].str) /\ IsBlank(items[2].str) /\ ~IsBlank(items[3].str)
    /\ items[1].str # items[3].str
    /\ Len(pageLines) = 2

\* C2: a non-blank fragment that stays on the line and whose gap to the end
\* of the previous fragment is at most wordGapThreshold (zero and negative
\* gaps included) is appended to the current line with no separator.
C2_SmallGapJoins ==
    [][ (/\ AtFragmentWithLast
         /\ ~IsNewLine(items[i], lastItem[1], totalHeight, count)
         /\ Gap(items[i], lastItem[1], totalHeight, count)
              <= WordGapThreshold(totalHeight, count))
        => (/\ currentLineParts' = Append(currentLineParts, items[i].str)
            /\ pageLines' = pageLines) ]_vars

\* two overlapping runs (negative gap) have been rejoined without a space
C2_Witness ==
    /\ pc = "loop"
    /\ i = 3
    /\ ~IsBlank(items[1].str) /\ ~IsBlank(items[2].str)
    /\ ~IsNewLine(items[2], items[1], totalHeight, count)
    /\ Gap(items[2], items[1], totalHeight, count) < 0
    /\ currentLineParts = <<items[1].str, items[2].str>>

\* C3: a non-blank fragment that stays on the line and whose gap is strictly
\* greater than wordGapThreshold = 0.15 * averageFontSize is appended
\* preceded by exactly one space.
C3_LargeGapSpace ==
    [][ (/\ AtFragmentWithLast
         /\ ~IsNewLine(items[i], lastItem[1], totalHeight, count)
         /\ Gap(items[i], lastItem[1], totalHeight, count) * 100
              > 15 * AvgNum(totalHeight, count) * 100)
        => (/\ currentLineParts' = Append(currentLineParts, <<" ">> \o items[i].str)
            /\ pageLines' = pageLines) ]_vars

\* a measured fragment followed, on the same line, by one beyond the threshold
C3_Witness ==
    /\ pc = "loop"
    /\ i = 3
    /\ ~IsBlank(items[1].str) /\ ~IsBlank(items[2].str)
    /\ items[1].width # 0
    /\ items[2].y # items[1].y
    /\ currentLineParts = <<items[1].str, <<" ">> \o items[2].str>>
    /\ pageLines = <<>>

\* C4: a non-blank fragment with a predecessor starts a new line exactly when
\* |y - last.y| > lineBreakThreshold or x < last.x: then the current line is
\* flushed and the fragment becomes the first part of the next line; in every
\* other case the fragment is appended to the current line.
C4_NewLineIff ==
    [][ AtFragmentWithLast =>
        LET it == items[i]
            last == lastItem[1]
            jump == Abs(it.y - last.y) * 100 * AvgDen(totalHeight, count)
                      > LineHeightThreshold(totalHeight, count)
            cond == jump \/ it.x < last.x
        IN  /\ cond =>
                /\ currentLineParts' = <<it.str>>
                /\ pageLines' = IF currentLineParts # <<>>
                                THEN Append(pageLines, Flatten(currentLineParts))
                                ELSE pageLines
            /\ ~cond =>
                /\ pageLines' = pageLines
                /\ Len(currentLineParts') = Len(currentLineParts) + 1
                /\ SubSeq(currentLineParts', 1, Len(currentLineParts)) = currentLineParts
            /\ currentLineParts # <<>> => (cond <=> pageLines' # pageLines) ]_vars

\* a fragment left of its predecessor on the same baseline has started line 2
C4_Witness ==
    /\ pc = "loop"
    /\ i = 3
    /\ ~IsBlank(items[1].str) /\ ~IsBlank(items[2].str)
    /\ items[2].x < items[1].x
    /\ items[2].y = items[1].y
    /\ pageLines = <<items[1].str>>
    /\ currentLineParts = <<items[2].str>>

\* C5 as claimed: with the thresholds held fixed, deleting the blank
\* fragments of a page never changes the lines produced.
C5_BlankIgnorable ==
    pc = "done" => pageLines = LinesWith(NonBlankItems(items), totalHeight, count)

\* no blank fragment comes immediately before a non-blank one
BlanksOnlyTrail(its) ==
    \A k \in 1..(Len(its) - 1) : IsBlank(its[k].str) => IsBlank(its[k + 1].str)

\* C5 amended: a blank fragment contributes no text but is a position marker:
\* the fragment a decision is measured against is the immediately preceding
\* one, blank or not.  With the thresholds held fixed, deleting the blank
\* fragments changes nothing but inserted spaces and line breaks, and changes
\* no line when no blank fragment immediately precedes a non-blank one.
C5_BlankIsMarker ==
    /\ (pc = "loop" /\ i > 1) => lastItem = <<items[i - 1]>>
    /\ pc = "done" =>
        LET without == LinesWith(NonBlankItems(items), totalHeight, count) IN
        /\ IsWeaveOf(Flatten(without), NonBlankTexts(items))
        /\ NonWs(Flatten(pageLines)) = NonWs(Flatten(without))
        /\ BlanksOnlyTrail(items) => pageLines = without

\* a blank fragment between two non-blank ones changed the lines of the page
C5_Witness ==
    /\ pc = "done"
    /\ Len(items) = 3
    /\ ~IsBlank(items[1].str) /\ IsBlank(items[2].str) /\ ~IsBlank(items[3].str)
    /\ pageLines # LinesWith(NonBlankItems(items), totalHeight, count)

-----------------------------------------------------------------------------
(* Properties of cleanText *)

Normalised == cpc \in {"once", "twice"}

\* sub occurs in s as a block of consecutive characters
Contains(s, sub) ==
    \E k \in 0..(Len(s) - Len(sub)) : SubSeq(s, k + 1, k + Len(sub)) = sub

\* what a character of the input is in the output when nothing around it changes
OutputOf(c) ==
    IF c \in ControlChars THEN <<>>
    ELSE IF c \in DOMAIN Replacements THEN Replacements[c]
    ELSE <<c>>

\* every run of spaces of the input that lies between two characters of cls
\* is in the output, with the same length, between the same two characters
SpaceRunsKept(cls) ==
    \A p, q \in 1..Len(text) :
        (/\ p + 1 < q
         /\ text[p] \in cls
         /\ text[q] \in cls
         /\ \A m \in (p + 1)..(q - 1) : text[m] = " ")
        => Contains(cleaned, OutputOf(text[p]) \o SubSeq(text, p + 1, q - 1)
                                \o OutputOf(text[q]))

\* C6: cleanText(cleanText(s)) = cleanText(s) for every string s.
C6_Idempotent ==
    cpc = "twice" => cleanedTwice = cleaned

\* C7 as claimed: a run of k >= 1 spaces between two characters that are
\* neither whitespace nor one of . , ; : ! ? is a run of exactly k spaces in
\* the output.
C7_SpacingKept ==
    Normalised => SpaceRunsKept(Alphabet \ (WhiteSpace \cup Punct))

\* C7 amended: a run of k >= 1 spaces between two characters that are neither
\* whitespace, nor stripped control characters, nor one of . , ; : ! ? is a
\* run of exactly k spaces, between the same two characters, in the output.
C7_SpacingKeptAmended ==
    Normalised => SpaceRunsKept(Alphabet \ (WhiteSpace \cup Punct \cup ControlChars))

\* two spaces between two letters went through cleanText
C7_Witness ==
    /\ cpc = "once"
    /\ Len(text) = 4
    /\ text[1] \in Letters /\ text[2] = " " /\ text[3] = " " /\ text[4] \in Letters
    /\ cleaned = text

\* C8: in the output of cleanText no whitespace character immediately
\* precedes one of . , ; : ! ?
C8_NoSpaceBeforePunct ==
    Normalised =>
        \A k \in 1..(Len(cleaned) - 1) :
            ~(cleaned[k] \in WhiteSpace /\ cleaned[k + 1] \in Punct)

\* C9: in the output of cleanText none of . , ; : ! ? is immediately
\* followed by a letter or a digit.
C9_SpaceAfterPunct ==
    Normalised =>
        \A k \in 1..(Len(cleaned) - 1) :
            ~(cleaned[k] \in Punct /\ cleaned[k + 1] \in Letters \cup {Digit})

\* C10: the output of cleanText has at most two consecutive newlines.
C10_AtMostTwoNewlines ==
    Normalised =>
        \A k \in 1..(Len(cleaned) - 2) :
            ~(cleaned[k] = "\n" /\ cleaned[k + 1] = "\n" /\ cleaned[k + 2] = "\n")

\* C11: the output of cleanText contains no carriage return: CRLF and lone CR
\* have become newlines.
C11_NoCarriageReturn ==
    Normalised => \A k \in 1..Len(cleaned) : cleaned[k] # "\r"

\* the glyphs the substitution table is said to cover: ligatures, dashes,
\* guillemets and curly quotes, ellipsis, bullet, copyright, registered and
\* trademark signs
TableGlyphs ==
    {"U+FB00", "U+FB01", "U+FB02", "U+FB03", "U+FB04", "U+2013", "U+2014",
     "U+00AB", "U+00BB", "U+201C", "U+201D", "U+201E", "U+2018", "U+2019",
     "U+201A", Ellipsis, "U+2022", Copyright, "U+00AE", "U+2122"}

\* C12: the output of cleanText contains none of the glyphs of the
\* substitution table.
C12_NoTableGlyph ==
    Normalised => \A k \in 1..Len(cleaned) : cleaned[k] \notin TableGlyphs

-----------------------------------------------------------------------------
(* Properties of both components *)

\* C13: a page with no fragments or with only blank fragments yields no
\* line, no line of a page is empty or whitespace-only, and cleanText
\* returns the empty string for the empty string and for undefined.
C13_EmptyInputs ==
    /\ pc = "done" =>
        /\ (\A k \in 1..Len(items) : IsBlank(items[k].str)) => pageLines = <<>>
        /\ \A l \in 1..Len(pageLines) : ~IsBlank(pageLines[l])
    /\ (Normalised /\ text \in {<<>>, Undefined}) => cleaned = <<>>

\* a page of blank fragments only has been reconstructed into no line
C13_Witness ==
    /\ pc = "done"
    /\ Len(items) >= 2
    /\ \A k \in 1..Len(items) : IsBlank(items[k].str)
    /\ pageLines = <<>>

-----------------------------------------------------------------------------
(* Degenerate fragments *)

\* the fragments of the page that have a usable height
WithHeight == {k \in 1..Len(items) : items[k].height # 0}

RECURSIVE HeightSum(_)
HeightSum(S) ==
    IF S = {} THEN 0
    ELSE LET k == CHOOSE j \in S : TRUE IN items[k].height + HeightSum(S \ {k})

\* C14: fragments without width or height are processed like any other:
\* averageFontSize is the mean height of the fragments that have a height
\* (12 when none has), and the end-X of a previous fragment without a width
\* is its x plus str.length * averageFontSize * 0.6.
C14_DegenerateFragments ==
    /\ [](pc = "loop" =>
            /\ ENABLED NextExtract
            /\ IF WithHeight = {}
               THEN AvgNum(totalHeight, count) = 12 * AvgDen(totalHeight, count)
               ELSE AvgNum(totalHeight, count) * Cardinality(WithHeight)
                      = HeightSum(WithHeight) * AvgDen(totalHeight, count))
    /\ [][ (/\ AtFragmentWithLast
            /\ lastItem[1].width = 0
            /\ ~IsNewLine(items[i], lastItem[1], totalHeight, count))
           => LET num == AvgNum(totalHeight, count)
                  den == AvgDen(totalHeight, count)
                  far == (items[i].x - lastItem[1].x) * 100 * den
                            - Len(lastItem[1].str) * num * 60 > 15 * num
              IN currentLineParts' =
                    Append(currentLineParts,
                           IF far THEN <<" ">> \o items[i].str ELSE items[i].str) ]_vars

\* on a page whose only height comes from the second fragment, the first
\* fragment has no width and the second was joined to its estimated end
C14_Witness ==
    /\ pc = "loop"
    /\ i = 3
    /\ items[1].width = 0 /\ items[1].height = 0
    /\ items[2].height # 0
    /\ items[2].x > items[1].x
    /\ currentLineParts = <<items[1].str, items[2].str>>

-----------------------------------------------------------------------------
(* Pages of a document *)

\* the lines the loop of lines 33-100 builds from the fragments of one page
LinesOfPage(its) == LinesWith(its, SumHeights(its), CountHeights(its))

\* C15: no state is carried from one page to the next: the font-size totals,
\* the current line and the last-seen fragment start afresh on every page,
\* and the lines of a page are a function of that page's fragments alone.
C15_PagesIndependent ==
    /\ (pc = "loop" /\ i = 1) =>
          /\ lastItem = <<>>
          /\ currentLineParts = <<>>
          /\ pageLines = <<>>
          /\ totalHeight = SumHeights(items)
          /\ count = CountHeights(items)
    /\ (pc = "done" /\ Len(items) > 0) => pageLines = LinesOfPage(items)
    /\ \A k \in 1..Len(fullText) :
          fullText[k].pageLines = LinesOfPage(pdf[fullText[k].pageNum])

\* two pages with different lines have been pushed
C15_Witness ==
    /\ pc = "page"
    /\ pageNum = 3
    /\ Len(fullText) = 2
    /\ fullText[1].pageLines # <<>>
    /\ fullText[2].pageLines # <<>>
    /\ fullText[1].pageLines # fullText[2].pageLines

-----------------------------------------------------------------------------
(* Reconstruction followed by normalisation *)

RECURSIVE DocLinesOf(_)
\* the reconstructed lines of the pushed pages, in document order
DocLinesOf(pages) ==
    IF pages = <<>> THEN <<>> ELSE Head(pages).pageLines \o DocLinesOf(Tail(pages))

DocLines == DocLinesOf(fullText)

RECURSIVE IsSubseq(_, _)
\* the elements of a occur in b, in the order of a
IsSubseq(a, b) ==
    IF a = <<>> THEN TRUE
    ELSE IF b = <<>> THEN FALSE
    ELSE IF Head(a) = Head(b) THEN IsSubseq(Tail(a), Tail(b))
    ELSE IsSubseq(a, Tail(b))

\* a fragment text without punctuation, control characters, tabs or table
\* glyphs and without leading or trailing whitespace
PlainFragment(str) ==
    /\ \A k \in 1..Len(str) :
          str[k] \notin Punct \cup ControlChars \cup {"\t"} \cup TableGlyphs
    /\ str # <<>> => (str[1] \notin WhiteSpace /\ str[Len(str)] \notin WhiteSpace)

PlainDocument ==
    \A p \in 1..Len(pdf) : \A k \in 1..Len(pdf[p]) : PlainFragment(pdf[p][k].str)

\* C16 as stated: for plain fragments, every reconstructed line is a line of
\* the normalised document text, verbatim and in order.
C16_LinesVerbatim ==
    (pc = "returned" /\ cpc = "once" /\ PlainDocument)
        => IsSubseq(DocLines, SplitLines(cleaned))

\* C16, amended: for plain fragments, every reconstructed line is, in order, a
\* line of the normalised document text, verbatim but for the space the loop
\* inserted at the start of a line, which the per-line trim removes.
C16_LinesVerbatimButLeadingSpace ==
    (pc = "returned" /\ cpc = "once" /\ PlainDocument)
        => IsSubseq([l \in 1..Len(DocLines) |-> TrimStart(DocLines[l])],
                    SplitLines(cleaned))

\* a normalised two-page document one of whose lines began with an inserted
\* space
C16_Witness ==
    /\ pc = "returned"
    /\ cpc = "once"
    /\ PlainDocument
    /\ Len(fullText) = 2
    /\ \E l \in 1..Len(DocLines) : DocLines[l][1] = " "

-----------------------------------------------------------------------------
(* processFile *)

\* the name has a case number and a date: at least two parts, a non-empty
\* first part and eight digits in some later part
NameHasCaseAndDate(parts) ==
    /\ Len(parts) >= 2
    /\ parts[1] # <<>>
    /\ \E k \in 2..Len(parts) : IsDateStr(parts[k])

\* C17: processFile always returns a result; success = true only if the
\* normalised text has at least 100 characters, and with a too-short text,
\* an extraction error or a name without case number or date the result has
\* success = false and an error message.
C17_ProcessFileResult ==
    /\ (file # NoFile /\ result = <<>>) => processFile(file).success \in BOOLEAN
    /\ result # <<>> =>
          LET r == result[1] IN
          /\ r.success \in BOOLEAN
          /\ r.success => /\ TextLength(cleanText(file.raw)) >= 100
                          /\ r.text = cleanText(file.raw)
                          /\ r.textLength >= 100
          /\ r.success <=> /\ NameHasCaseAndDate(file.name.parts)
                           /\ file.readable
                           /\ TextLength(cleanText(file.raw)) >= 100
          /\ ~r.success => /\ "error" \in DOMAIN r
                           /\ r.error \in {BadFileName, ExtractionFailed, TextTooShort}
                           /\ r.filename = file.name

\* a text of 101 characters that normalises to 99 was rejected as too short
C17_Witness ==
    /\ result # <<>>
    /\ ~result[1].success
    /\ result[1].error = TextTooShort
    /\ TextLength(file.raw) > 100
    /\ TextLength(cleanText(file.raw)) = 99

-----------------------------------------------------------------------------
(* A batch of PDF files *)

\* the file at position k of the batch yields an entry when it is processed
YieldsEntry(k) == validateFile(files[k]) /\ processFile(files[k]).success

\* C18: a file that fails validation, or whose processFile result has
\* success = false, adds nothing to datasetEntries or processedFiles and the
\* loop goes on with the next file; at the end of the batch every file has
\* been visited and every file that yields an entry is in processedFiles and
\* has its entry, whatever failed before it.
C18_FailureDoesNotAbort ==
    /\ [][ (\/ (/\ AtFile
                /\ files[fileIdx].name \notin processedFiles
                /\ ~validateFile(files[fileIdx]))
            \/ (hpc = "await" /\ result # <<>> /\ ~result[1].success))
           => /\ datasetEntries' = datasetEntries
              /\ processedFiles' = processedFiles
              /\ isProcessing'
              /\ hpc' = "loop"
              /\ fileIdx' = fileIdx + 1 ]_vars
    /\ [](hpc = "done" /\ Len(files) > 0 =>
            /\ fileIdx = Len(files) + 1
            /\ processedCount = Len(datasetEntries)
            /\ \A k \in 1..Len(files) :
                  YieldsEntry(k) =>
                     /\ files[k].name \in processedFiles
                     /\ \E e \in 1..Len(datasetEntries) :
                           datasetEntries[e].source_filename = files[k].name
            /\ \A e \in 1..Len(datasetEntries) :
                  \E k \in 1..Len(files) :
                     /\ YieldsEntry(k)
                     /\ datasetEntries[e].source_filename = files[k].name)

\* a finished batch of two files: the first failed in processFile, the second
\* was processed and gave the only entry
C18_Witness ==
    /\ hpc = "done"
    /\ Len(files) = 2
    /\ validateFile(files[1])
    /\ ~processFile(files[1]).success
    /\ errorCount = 1
    /\ processedCount = 1
    /\ Len(datasetEntries) = 1
    /\ datasetEntries[1].source_filename = files[2].name

-----------------------------------------------------------------------------
(* JSONL export *)

\* the characters a backslash may be followed by, and what the pair stands for
Unescaped == ("\"" :> "\"") @@ ("\\" :> "\\") @@ ("n" :> "\n") @@ ("r" :> "\r")
                 @@ ("t" :> "\t")

NoParse == [ok |-> FALSE, value |-> <<>>, rest |-> <<>>]

RECURSIVE ParseChars(_)
\* the JSON string whose opening quote has been read: its value and what
\* follows its closing quote
ParseChars(s) ==
    IF s = <<>> THEN NoParse
    ELSE IF Head(s) = "\"" THEN [ok |-> TRUE, value |-> <<>>, rest |-> Tail(s)]
    ELSE IF Head(s) \in {"\n", "\r", "\t"} THEN NoParse
    ELSE IF Head(s) = "\\"
         THEN IF Len(s) >= 2 /\ s[2] \in DOMAIN Unescaped
              THEN LET r == ParseChars(SubSeq(s, 3, Len(s))) IN
                   [ok |-> r.ok, value |-> <<Unescaped[s[2]]>> \o r.value, rest |-> r.rest]
              ELSE NoParse
         ELSE LET r == ParseChars(Tail(s)) IN
              [ok |-> r.ok, value |-> <<Head(s)>> \o r.value, rest |-> r.rest]

\* the JSON value s starts with: a string, true, false or null
ParseValue(s) ==
    IF s = <<>> THEN NoParse
    ELSE IF Head(s) = "\"" THEN ParseChars(Tail(s))
    ELSE IF Head(s) = "true" THEN [ok |-> TRUE, value |-> TRUE, rest |-> Tail(s)]
    ELSE IF Head(s) = "false" THEN [ok |-> TRUE, value |-> FALSE, rest |-> Tail(s)]
    ELSE IF Head(s) = "null" THEN [ok |-> TRUE, value |-> <<"null">>, rest |-> Tail(s)]
    ELSE NoParse

RECURSIVE ParseMembers(_, _)
\* the members of a JSON object read from s, added to those already read,
\* up to the closing brace that ends s; a file name is kept as the model
\* keeps file names
ParseMembers(s, entry) ==
    IF Len(s) < 5 \/ s[1] # "\"" \/ s[3] # "\"" \/ s[4] # ":" THEN <<>>
    ELSE LET v == ParseValue(SubSeq(s, 5, Len(s))) IN
         IF ~v.ok THEN <<>>
         ELSE LET value == IF s[2] = "source_filename"
                           THEN (IF v.value = <<"null">> THEN NoName
                                 ELSE NameOf(v.value))
                           ELSE v.value
                  e == (s[2] :> value) @@ entry
              IN
              IF v.rest = <<"}">> THEN <<e>>
              ELSE IF v.rest # <<>> /\ Head(v.rest) = ","
                   THEN ParseMembers(Tail(v.rest), e)
                   ELSE <<>>

\* JSON.parse of a line that starts with "{": <<entry>>, or <<>> when the
\* line is not the JSON text of an object
ParseEntry(line) ==
    IF line = <<>> \/ Head(line) # "{" THEN <<>>
    ELSE IF Tail(line) = <<"}">> THEN << <<>> >>
    ELSE ParseMembers(Tail(line), <<>>)

\* line k of the output is the JSON text of entry k and nothing else
LinesAreEntries(out) ==
    LET lines == SplitLines(out) IN
    /\ Len(lines) = Len(existing)
    /\ \A k \in 1..Len(lines) :
          /\ lines[k] = JSON_stringify(existing[k])
          /\ ParseEntry(lines[k]) = <<existing[k]>>

\* C19 as stated: the output for n entries splits at newlines into exactly n
\* lines, line k being the JSON text of entry k, parseable on its own.
C19_OneEntryPerLine ==
    jsonl # <<>> => LinesAreEntries(jsonl[1])

\* C19, amended: for n >= 1 entries the output splits at newlines into
\* exactly n lines, line k being the JSON text of entry k, parseable on its
\* own; for no entries the output is the empty string, which splits into
\* one empty line that is no JSON value.
C19_OneEntryPerLineNonEmpty ==
    jsonl # <<>> =>
        IF Len(existing) >= 1
        THEN LinesAreEntries(jsonl[1])
        ELSE /\ jsonl[1] = <<>>
             /\ SplitLines(jsonl[1]) = << <<>> >>
             /\ ParseEntry(<<>>) = <<>>

\* two entries were exported, one with a line break in its text
C19_Witness ==
    /\ jsonl # <<>>
    /\ Len(existing) = 2
    /\ \E k \in 1..Len(existing[1].decision_text) : existing[1].decision_text[k] = "\n"
    /\ existing[2].decision_text = <<Lat>>

-----------------------------------------------------------------------------
(* Merging datasets *)

RECURSIVE Accepted(_)
\* new entry j is accepted: its case_number is empty, or differs from that of
\* every existing entry and of every new entry accepted before it
Accepted(j) ==
    LET cn == newEntries[j].case_number IN
    \/ cn = <<>>
    \/ /\ \A k \in 1..Len(existing) : existing[k].case_number # cn
       /\ \A m \in 1..(j - 1) : Accepted(m) => newEntries[m].case_number # cn

RECURSIVE AcceptedFrom(_)
\* the accepted new entries from position j on, in order
AcceptedFrom(j) ==
    IF j > Len(newEntries) THEN <<>>
    ELSE (IF Accepted(j) THEN <<newEntries[j]>> ELSE <<>>) \o AcceptedFrom(j + 1)

\* C20: mergeDatasets returns the existing entries, unchanged and in order,
\* followed in order by exactly the accepted new entries, and leaves the
\* existing array as it was.
C20_MergeKeepsExisting ==
    [][ merged' # merged =>
           /\ merged' = <<existing \o AcceptedFrom(1)>>
           /\ existing' = existing ]_vars

\* a merge of two new entries that share a case number no existing entry has:
\* the first was accepted, the second skipped
C20_Witness ==
    /\ merged # <<>>
    /\ Len(existing) >= 1
    /\ Len(newEntries) = 2
    /\ newEntries[1].case_number # <<>>
    /\ Len(merged[1]) = Len(existing) + 1
    /\ newEntries[1].case_number = newEntries[2].case_number
    /\ \A k \in 1..Len(existing) : existing[k].case_number # newEntries[1].case_number

-----------------------------------------------------------------------------
(* JSONLHandler.fromJSONL, src/js/jsonl-handler.js lines 77-121, and the    *)
(* round trip of the entries createEntry builds                             *)

\* lines 100-107: the case number of a parsed entry is normalised when truthy
NormalizeLoaded(entry) ==
    IF "case_number" \in DOMAIN entry /\ Truthy(entry.case_number)
    THEN [entry EXCEPT !["case_number"] = normalizeCaseNumber(@)]
    ELSE entry

RECURSIVE FromLines(_)
\* lines 83-116: the loop over the lines
FromLines(lines) ==
    IF lines = <<>> THEN <<>>
    ELSE LET line == Trim(Head(lines)) IN
         IF line = <<>> \/ Head(line) # "{" \/ ParseEntry(line) = <<>>
         THEN FromLines(Tail(lines))
         ELSE <<NormalizeLoaded(ParseEntry(line)[1])>> \o FromLines(Tail(lines))

\* lines 77-121
fromJSONL(jsonlString) == FromLines(SplitLines(Trim(jsonlString)))

\* case numbers as file names and exports give them: empty, Latin or Cyrillic
\* first letter, with and without dashes and a slash
RawCases ==
    { <<>>,
      <<"A", "1">>,
      <<"a", "-", "1", "-", "2">>,
      <<CyrA, "-", "1", "/", "2">>,
      <<"1", "-", "2">>,
      <<"A", "-", "1", "-", "2", "-", "3">> }

InitRound ==
    /\ existing = <<>>
    /\ newEntries = <<>>
    /\ merged = <<>>
    /\ jsonl = <<>>
    /\ parsed = <<>>
    /\ items = <<>>
    /\ i = 1
    /\ totalHeight = 0
    /\ count = 0
    /\ pageLines = <<>>
    /\ currentLineParts = <<>>
    /\ lastItem = <<>>
    /\ pc = "idle"
    /\ text = <<>>
    /\ cleaned = <<>>
    /\ cleanedTwice = <<>>
    /\ cpc = "idle"
    /\ pdf = <<>>
    /\ pageNum = 0
    /\ fullText = <<>>
    /\ file = NoFile
    /\ result = <<>>
    /\ files = <<>>
    /\ fileIdx = 0
    /\ datasetEntries = <<>>
    /\ processedFiles = {}
    /\ isProcessing = FALSE
    /\ processedCount = 0
    /\ errorCount = 0
    /\ hpc = "idle"
    /\ storage = <<>>
    /\ currentPreviewIndex = NoIndex
    /\ checkboxAppealed = FALSE
    /\ checkboxCanceled = FALSE
    /\ lpc = "idle"
    /\ loadedEntries = <<>>
    /\ selections = 0
    /\ rejected = 0
    /\ keysToDelete = <<>>
    /\ keysToAdd = <<>>
    /\ applyStatus = ""

\* JSONLHandler.createEntry(caseNumber, decisionDate, text): one more entry
\* of the list that is exported
CreateEntry ==
    /\ jsonl = <<>>
    /\ Len(existing) < MaxEntries
    /\ \E c \in RawCases, d \in {Null, FormatDate(DatePart)}, t \in EntryTexts :
          existing' = Append(existing, createEntry(c, d, t, NoName))
    /\ UNCHANGED <<newEntries, merged, jsonl, parsed>>
    /\ UNCHANGED <<extractVars, cleanVars, docVars, procVars, appVars>>
    /\ UNCHANGED <<storage, uiVars, loadVars, selections, rejected, editorVars>>

\* JSONLHandler.fromJSONL(jsonl)
FromJSONL ==
    /\ jsonl # <<>>
    /\ parsed = <<>>
    /\ parsed' = <<fromJSONL(jsonl[1])>>
    /\ UNCHANGED <<existing, newEntries, merged, jsonl>>
    /\ UNCHANGED <<extractVars, cleanVars, docVars, procVars, appVars>>
    /\ UNCHANGED <<storage, uiVars, loadVars, selections, rejected, editorVars>>

NextRound == CreateEntry \/ ToJSONL \/ FromJSONL

SpecRound == InitRound /\ [][NextRound]_vars

\* C27: normalizeCaseNumber changes no case number it has produced, and the
\* entries parsed back from the export of a list of created entries are the
\* entries of the list, in order, with the case numbers they had; the empty
\* list comes back as the empty list.
C27_RoundTrip ==
    /\ \A k \in 1..Len(existing) :
          normalizeCaseNumber(existing[k].case_number) = existing[k].case_number
    /\ parsed # <<>> => parsed[1] = existing

\* two entries were exported and parsed back, one with a case number that
\* normalisation had rewritten and a text with a line break in it
C27_Witness ==
    /\ parsed # <<>>
    /\ Len(existing) = 2
    /\ existing[1].case_number = <<CyrA, "-", "1", "/", "2">>
    /\ \E k \in 1..Len(existing[1].decision_text) : existing[1].decision_text[k] = "\n"
    /\ existing[2].case_number = <<>>

-----------------------------------------------------------------------------
(* The dataset builder as the user drives it: PDF batches                   *)
(* (handleProcessPDFs, src/js/app.js lines 411-523), further clicks while   *)
(* a batch runs, and JSONL loads (handleLoadJSONL, lines 355-405) that may  *)
(* complete while a batch waits for processFile.                            *)

\* two files of the same case under different names, a file whose name has
\* no date, and an unreadable file
AppFiles ==
    { f \in BatchFiles :
        /\ f.type = PdfType
        /\ f.sizeMB = 1
        /\ \/ f.name.parts = <<CasePart, DatePart>> /\ f.readable /\ f.raw = LongText
           \/ f.name.parts = <<CasePart, YearPart, DatePart>> /\ f.raw = LongText
           \/ f.name.parts = <<CasePart>> /\ f.readable /\ f.raw = LongText }

\* an entry as an export holds it
Exported(caseNumber, txt) ==
    [case_number |-> caseNumber, decision_date |-> Null, decision_text |-> txt,
     source_filename |-> NoName]

\* the texts of the JSONL files the user may load: an empty file, a file of
\* one line that is no JSON, an export of the case of the PDF files with a
\* record that has no case number, the export of a session that processed
\* one of the PDF files, and exports of records whose appeal flags were set
\* elsewhere
Uploads ==
    { <<>>,
      <<"#", Lat>>,
      toJSONL(<<Exported(CasePart, <<Lat>>), Exported(<<>>, <<Lat>>)>>),
      toJSONL(<<createEntry(CasePart, FormatDate(DatePart), LongText,
                            [parts |-> <<CasePart, YearPart, DatePart>>, ext |-> "pdf"])>>),
      toJSONL(<<Exported(<<CyrA, "1">>, <<Lat>>) @@ [appealed |-> FALSE, canceled |-> TRUE]>>),
      toJSONL(<<Exported(<<CyrA, "2">>, <<Lat>>) @@ [appealed |-> TRUE, canceled |-> FALSE]>>) }

InitApp ==
    /\ files = <<>>
    /\ fileIdx = 0
    /\ datasetEntries = <<>>
    /\ processedFiles = {}
    /\ isProcessing = FALSE
    /\ processedCount = 0
    /\ errorCount = 0
    /\ hpc = "idle"
    /\ storage = <<>>
    /\ lpc = "idle"
    /\ loadedEntries = <<>>
    /\ selections = 0
    /\ rejected = 0
    /\ currentPreviewIndex = NoIndex
    /\ checkboxAppealed = FALSE
    /\ checkboxCanceled = FALSE
    /\ file = NoFile
    /\ result = <<>>
    /\ items = <<>>
    /\ i = 1
    /\ totalHeight = 0
    /\ count = 0
    /\ pageLines = <<>>
    /\ currentLineParts = <<>>
    /\ lastItem = <<>>
    /\ pc = "idle"
    /\ text = <<>>
    /\ cleaned = <<>>
    /\ cleanedTwice = <<>>
    /\ cpc = "idle"
    /\ pdf = <<>>
    /\ pageNum = 0
    /\ fullText = <<>>
    /\ existing = <<>>
    /\ newEntries = <<>>
    /\ merged = <<>>
    /\ jsonl = <<>>
    /\ parsed = <<>>
    /\ keysToDelete = <<>>
    /\ keysToAdd = <<>>
    /\ applyStatus = ""

\* handlePDFUploadChange, app.js lines 291-350: the user selects files while
\* no batch runs
SelectFiles ==
    /\ hpc \in {"idle", "done"}
    /\ selections < MaxSelections
    /\ files' \in UNION { [1..n -> AppFiles] : n \in 0..MaxFiles }
    /\ fileIdx' = 0
    /\ hpc' = "idle"
    /\ selections' = selections + 1
    /\ UNCHANGED <<datasetEntries, processedFiles, isProcessing, processedCount,
                   errorCount>>
    /\ UNCHANGED <<extractVars, cleanVars, docVars, procVars, jsonlVars>>
    /\ UNCHANGED <<storage, uiVars, loadVars, rejected, parsed, editorVars>>

\* ReturnBusy without the test of AppState.isProcessing: the invocation
\* starts its own loop over the files
ReturnBusyRestarts ==
    /\ isProcessing
    /\ rejected < MaxRejected
    /\ rejected' = rejected + 1
    /\ fileIdx' = 1
    /\ hpc' = "loop"
    /\ processedCount' = 0
    /\ errorCount' = 0
    /\ UNCHANGED <<files, datasetEntries, processedFiles, isProcessing>>
    /\ UNCHANGED <<extractVars, cleanVars, docVars, procVars, jsonlVars>>
    /\ UNCHANGED <<storage, uiVars, loadVars, selections, parsed, editorVars>>

\* app.js lines 421-424: handleProcessPDFs is invoked while a batch runs and
\* returns at the lock
ReturnBusy ==
    /\ isProcessing
    /\ rejected < MaxRejected
    /\ rejected' = rejected + 1
    /\ UNCHANGED appVars
    /\ UNCHANGED <<extractVars, cleanVars, docVars, procVars, jsonlVars>>
    /\ UNCHANGED <<storage, uiVars, loadVars, selections, parsed, editorVars>>

\* AbortBatch without the finally block
AbortBatchKeepsLock ==
    /\ hpc \in {"loop", "await"}
    /\ hpc' = "done"
    /\ file' = NoFile
    /\ result' = <<>>
    /\ UNCHANGED <<files, fileIdx, datasetEntries, processedFiles, isProcessing,
                   processedCount, errorCount>>
    /\ UNCHANGED <<extractVars, cleanVars, docVars, jsonlVars, sessionVars>>

\* app.js lines 503-508: an exception escapes the file loop; the catch block
\* reports it, nothing is saved, and the finally block releases the lock
AbortBatch ==
    /\ hpc \in {"loop", "await"}
    /\ isProcessing' = FALSE
    /\ hpc' = "done"
    /\ file' = NoFile
    /\ result' = <<>>
    /\ UNCHANGED <<files, fileIdx, datasetEntries, processedFiles,
                   processedCount, errorCount>>
    /\ UNCHANGED <<extractVars, cleanVars, docVars, jsonlVars, sessionVars>>

\* app.js lines 355-368: handleLoadJSONL up to "await file.text()"
LoadStart ==
    /\ lpc = "idle"
    /\ selections < MaxSelections
    /\ lpc' = "await"
    /\ selections' = selections + 1
    /\ UNCHANGED loadedEntries
    /\ UNCHANGED <<extractVars, cleanVars, docVars, procVars, appVars, jsonlVars>>
    /\ UNCHANGED <<storage, uiVars, rejected, parsed, editorVars>>

\* the names a load adds to processedFiles, app.js lines 384-388
LoadedNames(entries) ==
    { entries[k].source_filename :
        k \in { j \in 1..Len(entries) :
                  /\ "source_filename" \in DOMAIN entries[j]
                  /\ entries[j].source_filename # NoName } }

\* LoadFinish with "AppState.datasetEntries = entries" for the merge
LoadFinishReplaces ==
    /\ lpc = "await"
    /\ lpc' = "idle"
    /\ \E t \in Uploads :
          LET entries == fromJSONL(t) IN
          IF Len(entries) = 0
          THEN UNCHANGED <<datasetEntries, processedFiles, storage, loadedEntries>>
          ELSE /\ datasetEntries' = entries
               /\ processedFiles' = processedFiles \cup LoadedNames(entries)
               /\ storage' = <<Snapshot(datasetEntries', processedFiles')>>
               /\ loadedEntries' = entries
    /\ UNCHANGED <<files, fileIdx, isProcessing, processedCount, errorCount, hpc>>
    /\ UNCHANGED <<extractVars, cleanVars, docVars, procVars, jsonlVars>>
    /\ UNCHANGED <<uiVars, selections, rejected, parsed, editorVars>>

\* app.js lines 368-398: the text of the file arrives, is parsed and merged
LoadFinish ==
    /\ lpc = "await"
    /\ lpc' = "idle"
    /\ \E t \in Uploads :
          LET entries == fromJSONL(t) IN
          IF Len(entries) = 0
          THEN UNCHANGED <<datasetEntries, processedFiles, storage, loadedEntries>>
          ELSE /\ datasetEntries' = mergeDatasets(datasetEntries, entries).merged
               /\ processedFiles' = processedFiles \cup LoadedNames(entries)
               /\ storage' = <<Snapshot(datasetEntries', processedFiles')>>
               /\ loadedEntries' = entries
    /\ UNCHANGED <<files, fileIdx, isProcessing, processedCount, errorCount, hpc>>
    /\ UNCHANGED <<extractVars, cleanVars, docVars, procVars, jsonlVars>>
    /\ UNCHANGED <<uiVars, selections, rejected, parsed, editorVars>>

\* the steps of the file loop that wait for nothing
LoopStep ==
    \/ SkipProcessed
    \/ RejectInvalid
    \/ CallProcessFile
    \/ AddEntry
    \/ CountError
    \/ FinishBatch

\* processFile of the files of the model
Processed == [f \in AppFiles |-> processFile(f)]

\* the step ProcessFile of a running batch: the awaited call returns
Resume ==
    /\ hpc = "await"
    /\ file \in AppFiles
    /\ result = <<>>
    /\ result' = <<Processed[file]>>
    /\ UNCHANGED file
    /\ UNCHANGED <<extractVars, cleanVars, docVars, appVars, jsonlVars, sessionVars>>

NextApp ==
    \/ SelectFiles
    \/ ReturnNoFiles
    \/ StartBatch
    \/ ReturnBusy
    \/ SkipProcessed
    \/ RejectInvalid
    \/ CallProcessFile
    \/ ProcessFile
    \/ AddEntry
    \/ CountError
    \/ FinishBatch
    \/ AbortBatch
    \/ LoadStart
    \/ LoadFinish

SpecApp == InitApp /\ [][NextApp]_vars

\* the loop of a running batch goes on, and every processFile it waits for
\* returns
FairSpecApp == SpecApp /\ WF_vars(LoopStep) /\ WF_vars(Resume)

\* C21 as stated: no two entries of the working set have the same non-empty
\* case number.
C21_NoDuplicateCases ==
    \A j, k \in 1..Len(datasetEntries) :
        (j < k /\ Truthy(datasetEntries[j].case_number))
            => datasetEntries[j].case_number # datasetEntries[k].case_number

\* C22: the lock is held exactly while the one file loop runs, and an
\* invocation of handleProcessPDFs made while it is held returns without
\* touching the loop, the entries, the processed names or the lock.
C22_OneBatchAtATime ==
    /\ [](isProcessing <=> hpc \in {"loop", "await"})
    /\ [][ rejected' # rejected =>
              /\ isProcessing
              /\ UNCHANGED <<appVars, procVars, storage>> ]_vars

\* an invocation was turned away while the batch, one entry pushed, was
\* waiting for processFile
C22_Witness ==
    /\ rejected = 1
    /\ isProcessing
    /\ hpc = "await"
    /\ Len(datasetEntries) = 1

\* C23: a file whose name is in processedFiles is passed over with the
\* entries and the names left as they are; only a file whose name is not in
\* processedFiles is handed to processFile; a successfully processed file
\* appends exactly one entry, of its name, and adds its name; and no name
\* leaves processedFiles, so that no name is processed with success twice.
C23_NoFileTwice ==
    [][ /\ (AtFile /\ files[fileIdx].name \in processedFiles /\ fileIdx' # fileIdx) =>
              /\ fileIdx' = fileIdx + 1
              /\ hpc' = "loop"
              /\ UNCHANGED <<datasetEntries, processedFiles, processedCount>>
        /\ (hpc = "loop" /\ hpc' = "await") => file'.name \notin processedFiles
        /\ processedCount' = processedCount + 1 =>
              /\ Len(datasetEntries') = Len(datasetEntries) + 1
              /\ SubSeq(datasetEntries', 1, Len(datasetEntries)) = datasetEntries
              /\ datasetEntries'[Len(datasetEntries')].source_filename = file.name
              /\ processedFiles' = processedFiles \cup {file.name}
        /\ processedFiles \subseteq processedFiles' ]_vars

\* a second batch has passed over the file the first batch processed
C23_Witness ==
    /\ selections = 2
    /\ hpc = "loop"
    /\ fileIdx = 2
    /\ files[1].name \in processedFiles
    /\ processedCount = 0
    /\ errorCount = 0
    /\ Len(datasetEntries) = 1
    /\ datasetEntries[1].source_filename = files[1].name

DuplicatesOnly(a, b) ==
    \A k \in 1..Len(a) :
        \/ \E j \in 1..Len(b) : b[j] = a[k]
        \/ /\ Truthy(a[k].case_number)
           /\ \E j \in 1..Len(b) : b[j].case_number = a[k].case_number

\* C26: no step of a batch or of a load removes or reorders an entry; a load
\* that completes while a batch runs appends entries of its file, in order,
\* and leaves out only duplicates of case numbers; and the batch, at its
\* end, saves the entries as they then are.
C26_NoLostUpdate ==
    [][ /\ Len(datasetEntries') >= Len(datasetEntries)
        /\ SubSeq(datasetEntries', 1, Len(datasetEntries)) = datasetEntries
        /\ (isProcessing /\ lpc = "await" /\ lpc' = "idle"
                /\ datasetEntries' # datasetEntries) =>
              /\ IsSubseq(SubSeq(datasetEntries', Len(datasetEntries) + 1,
                                  Len(datasetEntries')),
                           loadedEntries')
              /\ DuplicatesOnly(loadedEntries', datasetEntries')
              /\ isProcessing' /\ hpc' = hpc /\ fileIdx' = fileIdx
        /\ (hpc = "loop" /\ hpc' = "done" /\ storage' # storage) =>
              /\ storage' = <<Snapshot(datasetEntries', processedFiles')>>
              /\ datasetEntries' = datasetEntries ]_vars

\* a batch of two files has ended; a load completed between its files: the
\* entries are the first file's, the loaded record, the second file's, and
\* the saved entries are the same
C26_Witness ==
    /\ hpc = "done"
    /\ processedCount = 2
    /\ Len(loadedEntries) = 2
    /\ Len(datasetEntries) = 3
    /\ datasetEntries[1].source_filename = files[1].name
    /\ datasetEntries[2] = loadedEntries[2]
    /\ datasetEntries[3].source_filename = files[2].name
    /\ storage # <<>>
    /\ storage[1].entries = datasetEntries

-----------------------------------------------------------------------------
(* Reviewing records in the builder: the preview selection and the appeal   *)
(* flags (handlePreviewChange, handleAppealedChange, handleCanceledChange,  *)
(* handleSaveChanges, src/js/app.js lines 1387-1508) and clearDataset       *)
(* (lines 1856-1865), on records brought in by handleLoadJSONL.  The        *)
(* disabled state of the second checkbox only narrows what the user can     *)
(* click and is left out.                                                   *)

\* "entry.appealed || false", "entry.canceled || false"
Flag(entry, key) == key \in DOMAIN entry /\ entry[key]

\* the entry with its two flags assigned, lines 1478-1479
SetFlags(entry, appealed, canceled) ==
    [k \in DOMAIN entry \cup FlagKeys |->
        IF k = "appealed" THEN appealed
        ELSE IF k = "canceled" THEN canceled
        ELSE entry[k]]

\* app.js lines 1387-1428: the user picks an option of the preview select,
\* or clicks a row of the table (lines 1690-1695); the options are those of
\* the entries present (lines 1656-1668)
HandlePreviewChange ==
    /\ \E index \in 1..Len(datasetEntries) :
          /\ currentPreviewIndex' = index
          /\ checkboxAppealed' = Flag(datasetEntries[index], "appealed")
          /\ checkboxCanceled' = Flag(datasetEntries[index], "canceled")
    /\ UNCHANGED <<extractVars, cleanVars, docVars, procVars, appVars, jsonlVars>>
    /\ UNCHANGED <<storage, loadVars, selections, rejected, parsed, editorVars>>

\* app.js lines 1433-1446: the user flips the first checkbox
HandleAppealedChange ==
    /\ checkboxAppealed' = ~checkboxAppealed
    /\ checkboxCanceled' = (checkboxAppealed' /\ checkboxCanceled)
    /\ UNCHANGED currentPreviewIndex
    /\ UNCHANGED <<extractVars, cleanVars, docVars, procVars, appVars, jsonlVars>>
    /\ UNCHANGED <<storage, loadVars, selections, rejected, parsed, editorVars>>

\* app.js lines 1451-1460: the user flips the second checkbox
HandleCanceledChange ==
    /\ checkboxCanceled' = ~checkboxCanceled
    /\ checkboxAppealed' = (checkboxAppealed \/ checkboxCanceled')
    /\ UNCHANGED currentPreviewIndex
    /\ UNCHANGED <<extractVars, cleanVars, docVars, procVars, appVars, jsonlVars>>
    /\ UNCHANGED <<storage, loadVars, selections, rejected, parsed, editorVars>>

\* handleSaveChanges without the check of lines 1482-1489
HandleSaveChangesUnchecked ==
    /\ currentPreviewIndex # NoIndex
    /\ currentPreviewIndex \in 1..Len(datasetEntries)
    /\ datasetEntries' =
          [datasetEntries EXCEPT ![currentPreviewIndex] =
              SetFlags(@, checkboxAppealed, checkboxCanceled)]
    /\ storage' = <<Snapshot(datasetEntries', processedFiles)>>
    /\ UNCHANGED <<checkboxAppealed, checkboxCanceled>>
    /\ UNCHANGED currentPreviewIndex
    /\ UNCHANGED <<files, fileIdx, processedFiles, isProcessing, processedCount,
                   errorCount, hpc>>
    /\ UNCHANGED <<extractVars, cleanVars, docVars, procVars, jsonlVars>>
    /\ UNCHANGED <<loadVars, selections, rejected, parsed, editorVars>>

\* app.js lines 1465-1508; with no index, or none of an entry, it returns
\* at once (lines 1466-1475)
HandleSaveChanges ==
    /\ currentPreviewIndex # NoIndex
    /\ currentPreviewIndex \in 1..Len(datasetEntries)
    /\ IF checkboxCanceled /\ ~checkboxAppealed
       THEN /\ datasetEntries' =
                  [datasetEntries EXCEPT ![currentPreviewIndex] =
                      SetFlags(@, checkboxAppealed, FALSE)]
            /\ checkboxCanceled' = FALSE
            /\ UNCHANGED <<checkboxAppealed, storage>>
       ELSE /\ datasetEntries' =
                  [datasetEntries EXCEPT ![currentPreviewIndex] =
                      SetFlags(@, checkboxAppealed, checkboxCanceled)]
            /\ storage' = <<Snapshot(datasetEntries', processedFiles)>>
            /\ UNCHANGED <<checkboxAppealed, checkboxCanceled>>
    /\ UNCHANGED currentPreviewIndex
    /\ UNCHANGED <<files, fileIdx, processedFiles, isProcessing, processedCount,
                   errorCount, hpc>>
    /\ UNCHANGED <<extractVars, cleanVars, docVars, procVars, jsonlVars>>
    /\ UNCHANGED <<loadVars, selections, rejected, parsed, editorVars>>

\* window.clearDataset, app.js lines 1856-1865, the question confirmed
ClearDataset ==
    /\ datasetEntries # <<>>
    /\ datasetEntries' = <<>>
    /\ processedFiles' = {}
    /\ storage' = <<Snapshot(datasetEntries', processedFiles')>>
    /\ UNCHANGED <<files, fileIdx, isProcessing, processedCount, errorCount, hpc>>
    /\ UNCHANGED <<extractVars, cleanVars, docVars, procVars, jsonlVars>>
    /\ UNCHANGED <<uiVars, loadVars, selections, rejected, parsed, editorVars>>

NextReview ==
    \/ LoadStart
    \/ LoadFinish
    \/ HandlePreviewChange
    \/ HandleAppealedChange
    \/ HandleCanceledChange
    \/ HandleSaveChanges
    \/ ClearDataset

SpecReview == InitApp /\ [][NextReview]_vars

\* no entry is canceled without being appealed
FlagsConsistent ==
    \A k \in 1..Len(datasetEntries) :
        Flag(datasetEntries[k], "canceled") => Flag(datasetEntries[k], "appealed")

\* C24: from entries in which canceled implies appealed, a step of
\* handleAppealedChange, handleCanceledChange or handleSaveChanges (any step
\* but the completion of a load, which brings in records as their file has
\* them) leads to entries in which canceled implies appealed.
C24_FlagsStayConsistent ==
    [][ (FlagsConsistent /\ ~(lpc = "await" /\ lpc' = "idle")) => FlagsConsistent' ]_vars

\* the user checked both boxes for a record that had neither flag and saved
C24_Witness ==
    /\ currentPreviewIndex # NoIndex
    /\ Len(datasetEntries) = 2
    /\ currentPreviewIndex = 2
    /\ datasetEntries[1].case_number = <<CyrA, "6", "0", "-", "7", "/", "2", "4">>
    /\ ~Flag(datasetEntries[1], "appealed")
    /\ Flag(datasetEntries[2], "appealed")
    /\ Flag(datasetEntries[2], "canceled")
    /\ datasetEntries[2].case_number = <<>>
    /\ storage # <<>>
    /\ storage[1].entries = datasetEntries

\* C29 as stated: an index that is not null is an index of an entry.
C29_IndexValid ==
    currentPreviewIndex # NoIndex => currentPreviewIndex \in 1..Len(datasetEntries)

\* loadFromLocalStorage, app.js lines 1731-1750: the entries a reload of the
\* page would bring back
StoredEntries == IF storage = <<>> THEN <<>> ELSE storage[1].entries

\* C30 as stated: when no load is pending, the stored entries are the
\* entries in memory.
C30_StorageFollowsMemory ==
    lpc = "idle" => StoredEntries = datasetEntries

-----------------------------------------------------------------------------
(* The dataset editor: the queues of keys to delete and to add and          *)
(* handleApplyChanges (src/enriched-dataset-editor/js/app.js lines 169-238) *)
(* with the key functions of its JSONLHandler (src/js/pdf-processor.js      *)
(* lines 791-870).  An entry of the editor is a JSON object of any shape:   *)
(* it is kept as the function from the paths of its members, each path a    *)
(* sequence of keys, to "object" for a nested object, "null" for null and   *)
(* the string itself for a string.                                          *)

\* a is a prefix of b
IsPrefix(a, b) == Len(a) <= Len(b) /\ SubSeq(b, 1, Len(a)) = a

\* `${prefix}.${key}`, pdf-processor.js line 798
KeyPath(path) == JoinWith(path, <<".">>)

\* pdf-processor.js lines 791-809; the order of the keys plays no part
extractAllKeys(entries) ==
    { KeyPath(q) : q \in UNION { DOMAIN entries[k] : k \in 1..Len(entries) } }

RECURSIVE Walk(_, _, _)
\* pdf-processor.js lines 836-839: from the value at path q along the parts
\* but the last; reading a member of null throws
Walk(obj, q, parts) ==
    IF Len(parts) = 1 THEN [at |-> "value", path |-> q]
    ELSE IF q # <<>> /\ obj[q] = "null" THEN [at |-> "TypeError", path |-> q]
    ELSE IF q \o <<Head(parts)>> \notin DOMAIN obj THEN [at |-> "undefined", path |-> q]
    ELSE Walk(obj, q \o <<Head(parts)>>, Tail(parts))

\* pdf-processor.js lines 832-847: the object afterwards, what is returned,
\* and whether a TypeError was thrown instead
deleteKeyByPath(obj, keyPath) ==
    LET parts == SplitAt(keyPath, ".")
        w == Walk(obj, <<>>, parts)
        target == w.path \o <<parts[Len(parts)]>>
    IN IF w.at = "TypeError" THEN [obj |-> obj, deleted |-> FALSE, thrown |-> TRUE]
       ELSE IF w.at = "undefined" THEN [obj |-> obj, deleted |-> FALSE, thrown |-> FALSE]
       ELSE IF w.path # <<>> /\ obj[w.path] = "null"
            THEN [obj |-> obj, deleted |-> FALSE, thrown |-> TRUE]
       ELSE IF target \in DOMAIN obj
            THEN [obj |-> [q \in { r \in DOMAIN obj : ~IsPrefix(target, r) } |-> obj[q]],
                  deleted |-> TRUE, thrown |-> FALSE]
            ELSE [obj |-> obj, deleted |-> FALSE, thrown |-> FALSE]

RECURSIVE DeleteLoop(_, _, _, _)
\* pdf-processor.js lines 817-823: the two nested forEach, at entry k and
\* key d; a TypeError ends them and leaves the entries as they then are
DeleteLoop(entries, keys, k, d) ==
    IF k > Len(entries) THEN [entries |-> entries, thrown |-> FALSE]
    ELSE IF d > Len(keys) THEN DeleteLoop(entries, keys, k + 1, 1)
    ELSE LET r == deleteKeyByPath(entries[k], keys[d]) IN
         IF r.thrown THEN [entries |-> entries, thrown |-> TRUE]
         ELSE DeleteLoop([entries EXCEPT ![k] = r.obj], keys, k, d + 1)

\* pdf-processor.js lines 814-827
deleteKeysFromEntries(entries, keys) == DeleteLoop(entries, keys, 1, 1)

\* the path at which addKeyToEntries puts the key
AddedPath(keyInfo) ==
    IF keyInfo.location = <<"root">> THEN <<keyInfo.name>>
    ELSE <<keyInfo.location, keyInfo.name>>

\* pdf-processor.js lines 852-871
addKeyToEntries(entries, keyInfo) ==
    [k \in 1..Len(entries) |->
        LET entry == entries[k] IN
        IF /\ AddedPath(keyInfo) \notin DOMAIN entry
           /\ \/ keyInfo.location = <<"root">>
              \/ /\ <<keyInfo.location>> \in DOMAIN entry
                 /\ entry[<<keyInfo.location>>] = "object"
        THEN (AddedPath(keyInfo) :> keyInfo.value) @@ entry
        ELSE entry]

RECURSIVE AddLoop(_, _)
\* editor app.js lines 215-222
AddLoop(entries, keyInfos) ==
    IF keyInfos = <<>> THEN entries
    ELSE AddLoop(addKeyToEntries(entries, Head(keyInfos)), Tail(keyInfos))

\* records with a nested object, with null in its place, with a string in
\* its place, and without it
EditorEntries ==
    { (<< <<"a">> >> :> "object") @@ (<< <<"a">>, <<"b">> >> :> "x") @@ (<< <<"c">> >> :> "x"),
      (<< <<"a">> >> :> "null") @@ (<< <<"c">> >> :> "x"),
      (<< <<"a">> >> :> "x"),
      (<< <<"c">> >> :> "x") }

\* saveToLocalStorage of the editor, editor app.js lines 449-462
EditorSnapshot(entries, index, toDelete, toAdd) ==
    [entries |-> entries, currentPreviewIndex |-> index,
     keysToDelete |-> toDelete, keysToAdd |-> toAdd]

InitEditor ==
    /\ datasetEntries = <<>>
    /\ keysToDelete = <<>>
    /\ keysToAdd = <<>>
    /\ applyStatus = ""
    /\ storage = <<>>
    /\ currentPreviewIndex = NoIndex
    /\ selections = 0
    /\ checkboxAppealed = FALSE
    /\ checkboxCanceled = FALSE
    /\ lpc = "idle"
    /\ loadedEntries = <<>>
    /\ rejected = 0
    /\ parsed = <<>>
    /\ files = <<>>
    /\ fileIdx = 0
    /\ processedFiles = {}
    /\ isProcessing = FALSE
    /\ processedCount = 0
    /\ errorCount = 0
    /\ hpc = "idle"
    /\ file = NoFile
    /\ result = <<>>
    /\ items = <<>>
    /\ i = 1
    /\ totalHeight = 0
    /\ count = 0
    /\ pageLines = <<>>
    /\ currentLineParts = <<>>
    /\ lastItem = <<>>
    /\ pc = "idle"
    /\ text = <<>>
    /\ cleaned = <<>>
    /\ cleanedTwice = <<>>
    /\ cpc = "idle"
    /\ pdf = <<>>
    /\ pageNum = 0
    /\ fullText = <<>>
    /\ existing = <<>>
    /\ newEntries = <<>>
    /\ merged = <<>>
    /\ jsonl = <<>>

\* what no editor action touches
EditorUnchanged ==
    /\ UNCHANGED <<files, fileIdx, processedFiles, isProcessing, processedCount,
                   errorCount, hpc>>
    /\ UNCHANGED <<extractVars, cleanVars, docVars, procVars, jsonlVars>>
    /\ UNCHANGED <<checkboxAppealed, checkboxCanceled, loadVars, rejected, parsed>>

\* handleLoadDataset, editor app.js lines 100-129, with a file that holds
\* entries; the await comes before the handler reads or writes the state
HandleLoadDataset ==
    /\ selections < MaxLoads
    /\ selections' = selections + 1
    /\ datasetEntries' \in UNION { [1..n -> EditorEntries] : n \in 1..MaxEntries }
    /\ storage' = <<EditorSnapshot(datasetEntries', currentPreviewIndex,
                                   keysToDelete, keysToAdd)>>
    /\ UNCHANGED <<currentPreviewIndex, keysToDelete, keysToAdd, applyStatus>>
    /\ EditorUnchanged

\* toggleKeyToDelete, editor app.js lines 169-176, for a key the page offers
\* (lines 135-150)
ToggleKeyToDelete ==
    /\ \E key \in extractAllKeys(datasetEntries) :
          IF \E d \in 1..Len(keysToDelete) : keysToDelete[d] = key
          THEN keysToDelete' = SelectSeq(keysToDelete, LAMBDA x : x # key)
          ELSE /\ Len(keysToDelete) < MaxSelectedKeys
               /\ keysToDelete' = Append(keysToDelete, key)
    /\ UNCHANGED <<datasetEntries, storage, currentPreviewIndex, selections,
                   keysToAdd, applyStatus>>
    /\ EditorUnchanged

\* handleAddKey, editor app.js lines 178-191, with a name typed in
HandleAddKey ==
    /\ Len(keysToAdd) < MaxAddedKeys
    /\ \E name \in { <<"n">> }, location \in { <<"root">>, <<"a">> } :
          keysToAdd' = Append(keysToAdd,
                              [name |-> name, location |-> location, value |-> ""])
    /\ applyStatus' = "added"
    /\ UNCHANGED <<datasetEntries, storage, currentPreviewIndex, selections,
                   keysToDelete>>
    /\ EditorUnchanged

\* removeAddedKey, editor app.js lines 193-196
RemoveAddedKey ==
    /\ \E index \in 1..Len(keysToAdd) :
          keysToAdd' = SubSeq(keysToAdd, 1, index - 1)
                          \o SubSeq(keysToAdd, index + 1, Len(keysToAdd))
    /\ UNCHANGED <<datasetEntries, storage, currentPreviewIndex, selections,
                   keysToDelete, applyStatus>>
    /\ EditorUnchanged

\* handleApplyChanges, editor app.js lines 198-238, on a dataset with entries
HandleApplyChanges ==
    /\ Len(datasetEntries) > 0
    /\ LET del == IF Len(keysToDelete) > 0
                  THEN deleteKeysFromEntries(datasetEntries, keysToDelete)
                  ELSE [entries |-> datasetEntries, thrown |-> FALSE]
       IN IF del.thrown
          THEN /\ datasetEntries' = del.entries
               /\ applyStatus' = "error"
               /\ UNCHANGED <<keysToDelete, keysToAdd, storage>>
          ELSE /\ datasetEntries' = AddLoop(del.entries, keysToAdd)
               /\ keysToDelete' = <<>>
               /\ keysToAdd' = <<>>
               /\ storage' = <<EditorSnapshot(datasetEntries', currentPreviewIndex,
                                              keysToDelete', keysToAdd')>>
               /\ applyStatus' = "applied"
    /\ UNCHANGED <<currentPreviewIndex, selections>>
    /\ EditorUnchanged

\* handleClearDataset, editor app.js lines 315-336, the question confirmed
HandleClearDataset ==
    /\ Len(datasetEntries) > 0
    /\ datasetEntries' = <<>>
    /\ currentPreviewIndex' = NoIndex
    /\ keysToDelete' = <<>>
    /\ keysToAdd' = <<>>
    /\ storage' = <<EditorSnapshot(datasetEntries', currentPreviewIndex',
                                   keysToDelete', keysToAdd')>>
    /\ UNCHANGED <<selections, applyStatus>>
    /\ EditorUnchanged

NextEditor ==
    \/ HandleLoadDataset
    \/ ToggleKeyToDelete
    \/ HandleAddKey
    \/ RemoveAddedKey
    \/ HandleApplyChanges
    \/ HandleClearDataset

SpecEditor == InitEditor /\ [][NextEditor]_vars

\* the key path is a member of the entry
HasKey(entry, keyPath) == SplitAt(keyPath, ".") \in DOMAIN entry

\* C28 as stated: handleApplyChanges, on a dataset with entries and keys the
\* page offered, ends without an error, with both queues empty and with no
\* entry holding a key selected for deletion, other than a key the queue of
\* additions put back after the deletions.
C28_ApplySucceeds ==
    [][ HandleApplyChanges =>
          /\ applyStatus' = "applied"
          /\ keysToDelete' = <<>>
          /\ keysToAdd' = <<>>
          /\ \A k \in 1..Len(datasetEntries'), d \in 1..Len(keysToDelete) :
                HasKey(datasetEntries'[k], keysToDelete[d]) =>
                    \E a \in 1..Len(keysToAdd) :
                        KeyPath(AddedPath(keysToAdd[a])) = keysToDelete[d] ]_vars

=============================================================================
